---- MODULE Spec2Model ----
(***************************************************************************)
(* Apertus: the gate node (Apertus_Gate.ino, "FieldNode") and the gateway  *)
(* node (Apertus_Gateway.ino, "BridgeNode") as state machines.             *)
(*                                                                         *)
(* Text is modelled as sequences of byte values (ASCII codes); a C string  *)
(* is the part of a buffer before its first NUL byte.                      *)
(*                                                                         *)
(* Spec        the gate node: setup() followed by loop() iterations        *)
(* SpecFair    the same, with the loop scheduled fairly (loop() is called  *)
(*             again and again by the Arduino core)                        *)
(***************************************************************************)
EXTENDS Integers, Sequences, FiniteSets, TLC

VARIABLES
    \* ---- gate node (Apertus_Gate.ino) ----
    gpc,              \* position in setup()/loop()
    pins,             \* level of every actuator output
    pulsePinArg,      \* pulsePin's parameter `pin` while it runs
    millis,           \* the millisecond counter millis()
    lastTelemetryMs,  \* unsigned long lastTelemetryMs
    rx,               \* the reception this loop() iteration handles (SENDERID, DATA)
    glog,             \* history: pin writes and radio sends of this iteration, in order
    bootSends,        \* history: radio sends made by setup()
    sinceLast,        \* history: ms really elapsed since lastTelemetryMs was set
    uptimeLog,        \* history: uptime_s of the latest two snapshots sent
    \* ---- gateway node (Apertus_Gateway.ino) ----
    bpc,              \* position in setup()/loop()
    serialBuf,        \* char serialBuf[]: the bytes before index serialPos
    serialPos,        \* uint16_t serialPos
    frame,            \* the radio frame this loop() iteration received
    serialOut,        \* the bytes written to Serial by setup() / this iteration
    radioSent,        \* the sendWithRetry calls of this iteration
    rawLine,          \* history: the serial bytes read since the last newline
    handled,          \* history: one record per newline read in this iteration
    readyCount,       \* history: readiness marker lines written since boot
    earlyEvents,      \* history: event lines written before the marker
    chunksUsed,       \* serial chunks read so far
    framesUsed,       \* radio frames received so far
    \* ---- battery percentage (batteryPctFromVoltage) ----
    readings,         \* the latest two (voltage, battery_pct) pairs computed
    \* ---- the radio link between the two nodes ----
    toGate,           \* frames in flight to the gate node
    toBridge,         \* frames in flight to the gateway
    cmdsUsed,         \* command lines written to the gateway so far
    phase,            \* history: how far the latest command has come
    sampledText,      \* history: the telemetry text sent after the command
    afterAck,         \* history: what the gateway wrote for the frame after ACK
    \* ---- host translator (apertus_serial_mqtt_bridge.py) ----
    cmdMsgs,          \* history: the command messages delivered by the bus
    hostWrites,       \* the writes made to the gateway's serial endpoint
    published,        \* history: every publication made, with its retained flag
    brokerRetained,   \* the topics the broker holds a retained message for
    silent,           \* the nodes that have stopped reporting
    subscriber,       \* a bus client: connected, nodes silent then, topics received
    \* ---- serial autodetect (apertus-detect-serial.py) ----
    dpc,              \* position in the probe run
    candidates,       \* the candidate device paths, in enumeration order
    outputs,          \* what each device sends within the timeout
    probeIdx,         \* index of the candidate being probed
    persisted,        \* the device path in the persisted configuration
    persistedBefore,  \* history: the persisted device path when the run began
    envWrites,        \* history: the paths written to the configuration
    \* ---- results of the gate node's radio sends ----
    sendLog,          \* history: cause and result of the sends since loop() began
    \* ---- the payloads of the gate node's radio sends ----
    payloadOut,       \* the bytes of the latest sendWithRetry call
    \* ---- forwardSerialToRadio on its own ----
    fwd               \* the latest call: its line, the send's result, what it did

gvars == <<gpc, pins, pulsePinArg, millis, lastTelemetryMs, rx, glog, bootSends, sinceLast,
           uptimeLog>>

bvars == <<bpc, serialBuf, serialPos, frame, serialOut, radioSent, rawLine, handled,
           readyCount, earlyEvents, chunksUsed, framesUsed>>

\* state outside the two loops
lvars == <<toGate, toBridge, cmdsUsed, phase, sampledText, afterAck>>

hvars == <<cmdMsgs, hostWrites, published, brokerRetained, silent, subscriber>>

dvars == <<dpc, candidates, outputs, probeIdx, persisted, persistedBefore, envWrites>>

\* state of the checks of single functions and call results
ovars == <<sendLog, payloadOut, fwd>>

xvars == <<readings, toGate, toBridge, cmdsUsed, phase, sampledText, afterAck, hvars, dvars,
           ovars>>

vars == <<gpc, pins, pulsePinArg, millis, lastTelemetryMs, rx, glog, bootSends, sinceLast,
          uptimeLog,
          bpc, serialBuf, serialPos, frame, serialOut, radioSent, rawLine, handled,
          readyCount, earlyEvents, chunksUsed, framesUsed,
          readings, toGate, toBridge, cmdsUsed, phase, sampledText, afterAck,
          cmdMsgs, hostWrites, published, brokerRetained, silent, subscriber,
          dpc, candidates, outputs, probeIdx, persisted, persistedBefore, envWrites,
          sendLog, payloadOut, fwd>>

(***************************************************************************)
(* Bounds of the model                                                     *)
(***************************************************************************)
\* extra bytes appended to a command word in a received payload
MaxPad == 1
\* bytes cut from the end of a command word in a received payload
MaxCut == 1
\* The clock advances in steps of TICK_MS (every delay of the sketch is a
\* multiple of it).  The 32-bit counter (wrap at 2^32 ms) and the telemetry
\* period (60000 ms) are scaled down, in ticks, so that a whole wrap of the
\* counter is explored.
WrapTicks == 24
IntervalTicks == 6
\* The gateway's buffers, scaled down so that lines longer than the line
\* buffer and payloads longer than the send buffer are explored:
\* SERIAL_BUF_LEN is 512 and sizeof(sendBuf) is 192 in the sketch.
SERIAL_BUF_LEN == 16
SEND_BUF_LEN == 6
\* serial chunks and radio frames the gateway reads in one run
MaxChunks == 3
\* battery voltages are tried on a grid of VoltStep mV that reaches VoltMargin mV
\* below the low threshold and above the high threshold
VoltMargin == 500
\* the radio link holds at most MaxInFlight frames each way; the host writes
\* at most MaxCmds command lines
MaxInFlight == 1
MaxCmds == 1
\* command messages delivered by the bus
MaxCmdMsgs == 2
MaxFrames == 1

(***************************************************************************)
(* Program constants, gate node                                            *)
(***************************************************************************)
PIN_ACT_OPEN == 3
PIN_ACT_CLOSE == 4
PIN_ACT_STOP == 5
PIN_ACT_LATCH == 11
PIN_ACT_UNLATCH == 12
PIN_ACT_TIMER == 13
RF_GATEWAY_ID == 10
RF_NODE_ID == 20
CMD_BUF_LEN == 128
PULSE_MS == 200
ACK_DELAY_MS == 50
LOOP_DELAY_MS == 100
SETUP_DELAY_MS == 200
TICK_MS == 50

MillisWrap == WrapTicks * TICK_MS
TELEMETRY_INTERVAL_MS == IntervalTicks * TICK_MS

ActuatorPins ==
    {PIN_ACT_OPEN, PIN_ACT_CLOSE, PIN_ACT_STOP, PIN_ACT_LATCH, PIN_ACT_UNLATCH, PIN_ACT_TIMER}

\* the string literals of the sketch, as bytes
StrOPEN == <<79, 80, 69, 78>>
StrCLOSE == <<67, 76, 79, 83, 69>>
StrSTOP == <<83, 84, 79, 80>>
StrLATCH == <<76, 65, 84, 67, 72>>
StrUNLATCH == <<85, 78, 76, 65, 84, 67, 72>>
StrTIMER_CLOSE == <<84, 73, 77, 69, 82, 95, 67, 76, 79, 83, 69>>
StrACK == <<65, 67, 75>>

(***************************************************************************)
(* C strings                                                               *)
(***************************************************************************)
Min(a, b) == IF a < b THEN a ELSE b

\* the C string held by a buffer: the bytes before the first NUL
CStr(buf) ==
    IF \E i \in 1..Len(buf) : buf[i] = 0
    THEN SubSeq(buf, 1, (CHOOSE i \in 1..Len(buf) :
                            buf[i] = 0 /\ \A j \in 1..(i - 1) : buf[j] # 0) - 1)
    ELSE buf

\* strcmp(a, b) == 0
StrEq(a, b) == CStr(a) = CStr(b)

(***************************************************************************)
(* Gate node: helpers                                                      *)
(***************************************************************************)
\* loop(): char cmd[128] = {0}; copyLen = min(DATALEN, sizeof(cmd)-1);
\* memcpy(cmd, DATA, copyLen); cmd[copyLen] = '\0'
CmdBuffer(data) == SubSeq(data, 1, Min(Len(data), CMD_BUF_LEN - 1)) \o <<0>>

\* applyActuatorCommand with LATCH and UNLATCH wired the wrong way round
CommandPinSwapped(cmd) ==
    IF StrEq(cmd, StrOPEN) THEN {PIN_ACT_OPEN}
    ELSE IF StrEq(cmd, StrCLOSE) THEN {PIN_ACT_CLOSE}
    ELSE IF StrEq(cmd, StrSTOP) THEN {PIN_ACT_STOP}
    ELSE IF StrEq(cmd, StrLATCH) THEN {PIN_ACT_UNLATCH}
    ELSE IF StrEq(cmd, StrUNLATCH) THEN {PIN_ACT_LATCH}
    ELSE IF StrEq(cmd, StrTIMER_CLOSE) THEN {PIN_ACT_TIMER}
    ELSE {}

\* applyActuatorCommand: the pin the command pulses ({} when no branch matches)
CommandPin(cmd) ==
    IF StrEq(cmd, StrOPEN) THEN {PIN_ACT_OPEN}
    ELSE IF StrEq(cmd, StrCLOSE) THEN {PIN_ACT_CLOSE}
    ELSE IF StrEq(cmd, StrSTOP) THEN {PIN_ACT_STOP}
    ELSE IF StrEq(cmd, StrLATCH) THEN {PIN_ACT_LATCH}
    ELSE IF StrEq(cmd, StrUNLATCH) THEN {PIN_ACT_UNLATCH}
    ELSE IF StrEq(cmd, StrTIMER_CLOSE) THEN {PIN_ACT_TIMER}
    ELSE {}

\* battery thresholds, in millivolts
BATTERY_VOLTS_MIN == 11500
BATTERY_VOLTS_MAX == 13600

\* batteryPctFromVoltage with the cast truncating (no + 0.5f)
BatteryPctTruncated(v) ==
    IF v <= BATTERY_VOLTS_MIN THEN 0
    ELSE IF v >= BATTERY_VOLTS_MAX THEN 100
    ELSE (100 * (v - BATTERY_VOLTS_MIN)) \div (BATTERY_VOLTS_MAX - BATTERY_VOLTS_MIN)

\* batteryPctFromVoltage(v): (int)(pct * 100.0f + 0.5f), pct being
\* (v - MIN) / (MAX - MIN)
BatteryPctFromVoltage(v) ==
    IF v <= BATTERY_VOLTS_MIN THEN 0
    ELSE IF v >= BATTERY_VOLTS_MAX THEN 100
    ELSE (200 * (v - BATTERY_VOLTS_MIN) + (BATTERY_VOLTS_MAX - BATTERY_VOLTS_MIN))
         \div (2 * (BATTERY_VOLTS_MAX - BATTERY_VOLTS_MIN))

\* gate_state with the open limit tested alone first
GateStateOpenFirst(limitOpen, limitClosed) ==
    IF limitOpen THEN "open"
    ELSE IF limitClosed THEN "closed"
    ELSE "moving"

\* sendTelemetryToGateway: gate_state from the two limit inputs
GateState(limitOpen, limitClosed) ==
    IF limitOpen /\ ~limitClosed THEN "open"
    ELSE IF limitClosed /\ ~limitOpen THEN "closed"
    ELSE IF ~limitOpen /\ ~limitClosed THEN "moving"
    ELSE "unknown"

\* getUptimeSeconds
UptimeSeconds(ms) == ms \div 1000

\* the snapshot sendTelemetryToGateway builds from the inputs it samples
Snapshot(limitOpen, limitClosed, ms) ==
    [gate_state |-> GateState(limitOpen, limitClosed),
     limit_open |-> limitOpen,
     limit_closed |-> limitClosed,
     uptime_s |-> UptimeSeconds(ms)]

\* rf69.sendWithRetry(RF_GATEWAY_ID, payload, n) of sendTelemetryToGateway;
\* `cause` records which call site ran it: "boot", "command" or "periodic"
TelemetrySend(cause, limitOpen, limitClosed, ms) ==
    [ev |-> "send", dest |-> RF_GATEWAY_ID, kind |-> "telemetry", cause |-> cause,
     snap |-> Snapshot(limitOpen, limitClosed, ms)]

\* the reply addressed to whoever sent the command
AckSendToSender(sender) ==
    [ev |-> "send", dest |-> sender, kind |-> "ack", cause |-> "command",
     data |-> StrACK]

\* loop(): rf69.sendWithRetry(RF_GATEWAY_ID, "ACK", strlen(ack)), the reply to a
\* reception from `sender`
AckSendTo(sender) ==
    [ev |-> "send", dest |-> RF_GATEWAY_ID, kind |-> "ack", cause |-> "command",
     data |-> StrACK]

PinWrite(pin, level) == [ev |-> "pin", pin |-> pin, level |-> level]

\* millis() after a blocking wait of d ms
After(ms, d) == (ms + d) % MillisWrap

\* history: the time really elapsed, d ms later (kept finite)
Really(t, d) == Min(t + d, 2 * MillisWrap)

\* millis() - lastTelemetryMs, in unsigned arithmetic
Elapsed(now, last) == (now - last) % MillisWrap

NoRx == [sender |-> 0, data |-> <<>>, valid |-> FALSE]

(***************************************************************************)
(* What the radio can deliver to the gate node                             *)
(***************************************************************************)
Words == {StrOPEN, StrCLOSE, StrSTOP, StrLATCH, StrUNLATCH, StrTIMER_CLOSE}

PadBytes == {0, 88}

RECURSIVE Pads(_)
Pads(n) ==
    IF n = 0 THEN {<<>>}
    ELSE Pads(n - 1) \cup {p \o <<b>> : p \in Pads(n - 1), b \in PadBytes}

Lower(w) == [i \in 1..Len(w) |-> IF w[i] \in 65..90 THEN w[i] + 32 ELSE w[i]]

GatePayloads ==
    {w \o p : w \in Words, p \in Pads(MaxPad)}
    \cup {SubSeq(w, 1, Len(w) - k) : w \in Words, k \in 0..MaxCut}
    \cup {Lower(w) : w \in Words}
    \cup {<<>>}

Senders == {RF_GATEWAY_ID, 33}

(***************************************************************************)
(* Gate node: setup() and loop()                                           *)
(***************************************************************************)
\* history: a snapshot with uptime_s = u has been sent
Logged(log, u) == IF Len(log) < 2 THEN Append(log, u) ELSE <<log[2], u>>

GateInit ==
    /\ gpc = "setup"
    /\ pins = [p \in ActuatorPins |-> "LOW"]
    /\ pulsePinArg = 0
    /\ millis = 0
    /\ lastTelemetryMs = 0
    /\ rx = NoRx
    /\ glog = <<>>
    /\ bootSends = <<>>
    /\ sinceLast = 0
    /\ uptimeLog = <<>>

\* setup(): outputs LOW, radio initialised, lastTelemetryMs = millis(),
\* one boot telemetry
GateSetupStep ==
    /\ gpc = "setup"
    /\ pins' = [p \in ActuatorPins |-> "LOW"]
    /\ millis' = After(millis, SETUP_DELAY_MS)
    /\ lastTelemetryMs' = millis'
    /\ \E lo \in BOOLEAN, lc \in BOOLEAN :
          bootSends' = Append(bootSends, TelemetrySend("boot", lo, lc, millis'))
    /\ sinceLast' = 0
    /\ gpc' = "loop"
    /\ UNCHANGED <<pulsePinArg, rx, glog>>
    /\ uptimeLog' = Logged(uptimeLog, UptimeSeconds(millis'))

GateSetup ==
    /\ GateSetupStep
    /\ UNCHANGED bvars
    /\ UNCHANGED xvars

\* loop(): rf69.receiveDone() is true; the command is copied and
\* applyActuatorCommand runs up to pulsePin's digitalWrite(pin, HIGH)
LoopReceiveStep(s, d) ==
    /\ gpc = "loop"
    /\ rx' = [sender |-> s, data |-> d, valid |-> TRUE]
    /\ LET hit == CommandPin(CmdBuffer(d)) IN
       IF hit = {}
       THEN /\ gpc' = "ack"
            /\ UNCHANGED <<pins, pulsePinArg, glog>>
       ELSE \E p \in hit :
            /\ pulsePinArg' = p
            /\ pins' = [pins EXCEPT ![p] = "HIGH"]
            /\ glog' = Append(glog, PinWrite(p, "HIGH"))
            /\ gpc' = "pulse"
    /\ UNCHANGED <<millis, lastTelemetryMs, bootSends, sinceLast>>
    /\ UNCHANGED uptimeLog

\* the frame is any of the payloads the radio can deliver
LoopReceive ==
    /\ \E s \in Senders, d \in GatePayloads : LoopReceiveStep(s, d)
    /\ UNCHANGED bvars
    /\ UNCHANGED xvars

\* loop(): rf69.receiveDone() is false
LoopNoReceive ==
    /\ gpc = "loop"
    /\ gpc' = "period"
    /\ UNCHANGED <<pins, pulsePinArg, millis, lastTelemetryMs, rx, glog, bootSends, sinceLast>>
    /\ UNCHANGED uptimeLog
    /\ UNCHANGED bvars
    /\ UNCHANGED xvars

\* pulsePin sending the ACK while the output is still HIGH
PulseEndAckInsidePulse ==
    /\ gpc = "pulse"
    /\ millis' = After(millis, PULSE_MS)
    /\ pins' = [pins EXCEPT ![pulsePinArg] = "LOW"]
    /\ glog' = glog \o <<AckSendTo(rx.sender), PinWrite(pulsePinArg, "LOW")>>
    /\ pulsePinArg' = 0
    /\ sinceLast' = Really(sinceLast, PULSE_MS)
    /\ gpc' = "ack"
    /\ UNCHANGED <<lastTelemetryMs, rx, bootSends>>
    /\ UNCHANGED uptimeLog
    /\ UNCHANGED bvars
    /\ UNCHANGED xvars

\* pulsePin ending without its digitalWrite(pin, LOW)
PulseEndLeftHigh ==
    /\ gpc = "pulse"
    /\ millis' = After(millis, PULSE_MS)
    /\ pulsePinArg' = 0
    /\ sinceLast' = Really(sinceLast, PULSE_MS)
    /\ gpc' = "ack"
    /\ UNCHANGED <<pins, glog, lastTelemetryMs, rx, bootSends>>
    /\ UNCHANGED uptimeLog
    /\ UNCHANGED bvars
    /\ UNCHANGED xvars

\* pulsePin: delay(ms); digitalWrite(pin, LOW)
PulseEnd ==
    /\ gpc = "pulse"
    /\ millis' = After(millis, PULSE_MS)
    /\ pins' = [pins EXCEPT ![pulsePinArg] = "LOW"]
    /\ glog' = Append(glog, PinWrite(pulsePinArg, "LOW"))
    /\ pulsePinArg' = 0
    /\ sinceLast' = Really(sinceLast, PULSE_MS)
    /\ gpc' = "ack"
    /\ UNCHANGED <<lastTelemetryMs, rx, bootSends>>
    /\ UNCHANGED uptimeLog
    /\ UNCHANGED bvars
    /\ UNCHANGED xvars

\* loop(): sendWithRetry(RF_GATEWAY_ID, "ACK", 3); delay(50)
SendAckStep ==
    /\ gpc = "ack"
    /\ glog' = Append(glog, AckSendTo(rx.sender))
    /\ millis' = After(millis, ACK_DELAY_MS)
    /\ sinceLast' = Really(sinceLast, ACK_DELAY_MS)
    /\ gpc' = "telemetry"
    /\ UNCHANGED <<pins, pulsePinArg, lastTelemetryMs, rx, bootSends>>
    /\ UNCHANGED uptimeLog

SendAck ==
    /\ SendAckStep
    /\ UNCHANGED bvars
    /\ UNCHANGED xvars

\* the reception branch's telemetry also restarting the period
SendCmdTelemetryResetsTimer ==
    /\ gpc = "telemetry"
    /\ \E lo \in BOOLEAN, lc \in BOOLEAN :
          glog' = Append(glog, TelemetrySend("command", lo, lc, millis))
    /\ lastTelemetryMs' = millis
    /\ gpc' = "period"
    /\ UNCHANGED <<pins, pulsePinArg, millis, rx, bootSends, sinceLast>>
    /\ uptimeLog' = Logged(uptimeLog, UptimeSeconds(millis))
    /\ UNCHANGED bvars
    /\ UNCHANGED xvars

\* loop(): sendTelemetryToGateway() at the end of the reception branch
SendCmdTelemetryStep ==
    /\ gpc = "telemetry"
    /\ \E lo \in BOOLEAN, lc \in BOOLEAN :
          glog' = Append(glog, TelemetrySend("command", lo, lc, millis))
    /\ gpc' = "period"
    /\ UNCHANGED <<pins, pulsePinArg, millis, lastTelemetryMs, rx, bootSends, sinceLast>>
    /\ uptimeLog' = Logged(uptimeLog, UptimeSeconds(millis))

SendCmdTelemetry ==
    /\ SendCmdTelemetryStep
    /\ UNCHANGED bvars
    /\ UNCHANGED xvars

\* the period check comparing the counter values without wraparound
PeriodDueUnwrapped(now, last) == now >= last + TELEMETRY_INTERVAL_MS

\* loop(): millis() - lastTelemetryMs >= TELEMETRY_INTERVAL_MS
PeriodDue(now, last) == Elapsed(now, last) >= TELEMETRY_INTERVAL_MS

\* loop(): the period has elapsed: sendTelemetryToGateway();
\* lastTelemetryMs = millis()
PeriodicTelemetryStep ==
    /\ gpc = "period"
    /\ PeriodDue(millis, lastTelemetryMs)
    /\ \E lo \in BOOLEAN, lc \in BOOLEAN :
          glog' = Append(glog, TelemetrySend("periodic", lo, lc, millis))
    /\ lastTelemetryMs' = millis
    /\ sinceLast' = 0
    /\ gpc' = "delay"
    /\ UNCHANGED <<pins, pulsePinArg, millis, rx, bootSends>>
    /\ uptimeLog' = Logged(uptimeLog, UptimeSeconds(millis))

PeriodicTelemetry ==
    /\ PeriodicTelemetryStep
    /\ UNCHANGED bvars
    /\ UNCHANGED xvars

\* loop(): the period has not elapsed
PeriodicSkip ==
    /\ gpc = "period"
    /\ ~PeriodDue(millis, lastTelemetryMs)
    /\ gpc' = "delay"
    /\ UNCHANGED <<pins, pulsePinArg, millis, lastTelemetryMs, rx, glog, bootSends, sinceLast>>
    /\ UNCHANGED uptimeLog
    /\ UNCHANGED bvars
    /\ UNCHANGED xvars

\* loop(): delay(100), and loop() returns
LoopDelayStep ==
    /\ gpc = "delay"
    /\ millis' = After(millis, LOOP_DELAY_MS)
    /\ rx' = NoRx
    /\ glog' = <<>>
    /\ sinceLast' = Really(sinceLast, LOOP_DELAY_MS)
    /\ gpc' = "loop"
    /\ UNCHANGED <<pins, pulsePinArg, lastTelemetryMs, bootSends>>
    /\ UNCHANGED uptimeLog

LoopDelay ==
    /\ LoopDelayStep
    /\ UNCHANGED bvars
    /\ UNCHANGED xvars

(***************************************************************************)
(* Gateway node: program constants and string literals                     *)
(***************************************************************************)
RH_RF69_MAX_MESSAGE_LEN == 60

\* TO:
StrTO == <<84, 79, 58>>
\* RFM69 init failed
MsgInitFailed == <<82, 70, 77, 54, 57, 32, 105, 110, 105, 116, 32, 102, 97, 105, 108, 101, 100>>
\* Apertus Gateway RFM69 initialized
MsgInitOk ==
    <<65, 112, 101, 114, 116, 117, 115, 32, 71, 97, 116, 101, 119, 97, 121, 32, 82, 70,
      77, 54, 57, 32, 105, 110, 105, 116, 105, 97, 108, 105, 122, 101, 100>>
\* {"gateway":"apertus_ready"}
ReadyMarker ==
    <<123, 34, 103, 97, 116, 101, 119, 97, 121, 34, 58, 34, 97, 112, 101, 114, 116, 117,
      115, 95, 114, 101, 97, 100, 121, 34, 125>>
\* {"err":"unknown_serial_cmd","line":"
ErrUnknownHead ==
    <<123, 34, 101, 114, 114, 34, 58, 34, 117, 110, 107, 110, 111, 119, 110, 95, 115, 101,
      114, 105, 97, 108, 95, 99, 109, 100, 34, 44, 34, 108, 105, 110, 101, 34, 58, 34>>
\* "}
QuoteBrace == <<34, 125>>
\* {"err":"bad_format"}
ErrBadFormat ==
    <<123, 34, 101, 114, 114, 34, 58, 34, 98, 97, 100, 95, 102, 111, 114, 109, 97, 116,
      34, 125>>
\* {"err":"empty_payload"}
ErrEmptyPayload ==
    <<123, 34, 101, 114, 114, 34, 58, 34, 101, 109, 112, 116, 121, 95, 112, 97, 121, 108,
      111, 97, 100, 34, 125>>
\* {"sent_to":
SentToHead == <<123, 34, 115, 101, 110, 116, 95, 116, 111, 34, 58>>
\* ,"payload":"
PayloadKey == <<44, 34, 112, 97, 121, 108, 111, 97, 100, 34, 58, 34>>
\* {"sent_error_to":
SentErrorHead ==
    <<123, 34, 115, 101, 110, 116, 95, 101, 114, 114, 111, 114, 95, 116, 111, 34, 58>>
\* }
CloseBrace == <<125>>
\* {"src":
RxHead == <<123, 34, 115, 114, 99, 34, 58>>
\* ,"rssi":
RssiKey == <<44, 34, 114, 115, 115, 105, 34, 58>>

\* '\r', '\n', ':', '"', '\\'
CR == 13
LF == 10
COLON == 58
QUOTE == 34
BACKSLASH == 92

(***************************************************************************)
(* Gateway node: Serial printing and C library helpers                     *)
(***************************************************************************)
\* Serial.println(x): x followed by "\r\n"
Println(bytes) == bytes \o <<CR, LF>>

RECURSIVE Digits(_)
Digits(n) == IF n < 10 THEN <<48 + n>> ELSE Digits(n \div 10) \o <<48 + (n % 10)>>

\* Serial.print(int)
PrintInt(n) == IF n < 0 THEN <<45>> \o Digits(-n) ELSE Digits(n)

\* strncmp(s, prefix, strlen(prefix)) == 0
HasPrefix(s, prefix) ==
    Len(s) >= Len(prefix) /\ SubSeq(s, 1, Len(prefix)) = prefix

\* strchr(s, c): the index of the first c in s, 0 when there is none
StrChr(s, c) ==
    IF \E i \in 1..Len(s) : s[i] = c
    THEN CHOOSE i \in 1..Len(s) : s[i] = c /\ \A j \in 1..(i - 1) : s[j] # c
    ELSE 0

IsSpace(c) == c = 32 \/ c \in 9..13
IsDigit(c) == c \in 48..57

RECURSIVE AtoiDigits(_, _, _)
AtoiDigits(s, i, acc) ==
    IF i <= Len(s) /\ IsDigit(s[i])
    THEN AtoiDigits(s, i + 1, acc * 10 + (s[i] - 48))
    ELSE acc

\* an int of the AVR build is 16 bits wide; a value out of its range wraps
ToInt(n) == ((n + 32768) % 65536) - 32768

\* atoi(s): leading white space, an optional sign, then digits
Atoi(s) ==
    LET start == IF \E i \in 1..Len(s) : ~IsSpace(s[i])
                 THEN CHOOSE i \in 1..Len(s) :
                          ~IsSpace(s[i]) /\ \A j \in 1..(i - 1) : IsSpace(s[j])
                 ELSE Len(s) + 1
        signed == start <= Len(s) /\ s[start] \in {43, 45}
        first == IF signed THEN start + 1 ELSE start
        mag == AtoiDigits(s, first, 0)
    IN ToInt(IF signed /\ s[start] = 45 THEN -mag ELSE mag)

\* forwardSerialToRadio: len = strlen(payload);
\* while (len > 0 && (payload[len-1] == '\n' || payload[len-1] == '\r')) len--
TrimLen(payload) ==
    LET stops == {n \in 0..Len(payload) : n = 0 \/ payload[n] \notin {LF, CR}}
    IN CHOOSE n \in stops : \A m \in stops : m <= n

\* loop(): the payload as printed, '"' and '\' preceded by '\'
RECURSIVE EscapeBytes(_)
EscapeBytes(s) ==
    IF s = <<>> THEN <<>>
    ELSE (IF Head(s) \in {QUOTE, BACKSLASH} THEN <<BACKSLASH, Head(s)>> ELSE <<Head(s)>>)
         \o EscapeBytes(Tail(s))

(***************************************************************************)
(* Gateway node: forwardSerialToRadio and the two halves of loop()         *)
(***************************************************************************)
\* forwardSerialToRadio reporting success whatever sendWithRetry returned
ForwardIgnoringResult(line, ok) ==
    IF ~HasPrefix(line, StrTO)
    THEN [out |-> Println(ErrUnknownHead \o line \o QuoteBrace), sends |-> <<>>]
    ELSE
        LET p == SubSeq(line, 4, Len(line))
            dest == Atoi(p)
            colon == StrChr(p, COLON)
        IN  IF colon = 0
            THEN [out |-> Println(ErrBadFormat), sends |-> <<>>]
            ELSE
                LET payload == SubSeq(p, colon + 1, Len(p))
                    len == TrimLen(payload)
                    n == Min(len, SEND_BUF_LEN - 1)
                IN  IF len = 0
                    THEN [out |-> Println(ErrEmptyPayload), sends |-> <<>>]
                    ELSE [out |-> SentToHead \o PrintInt(dest) \o PayloadKey \o payload
                                    \o Println(QuoteBrace),
                          sends |-> <<[dest |-> dest % 256,
                                       data |-> SubSeq(payload, 1, n)]>>]

\* forwardSerialToRadio handing the whole payload to sendWithRetry
ForwardUntruncated(line, ok) ==
    IF ~HasPrefix(line, StrTO)
    THEN [out |-> Println(ErrUnknownHead \o line \o QuoteBrace), sends |-> <<>>]
    ELSE
        LET p == SubSeq(line, 4, Len(line))
            dest == Atoi(p)
            colon == StrChr(p, COLON)
        IN  IF colon = 0
            THEN [out |-> Println(ErrBadFormat), sends |-> <<>>]
            ELSE
                LET payload == SubSeq(p, colon + 1, Len(p))
                    len == TrimLen(payload)
                IN  IF len = 0
                    THEN [out |-> Println(ErrEmptyPayload), sends |-> <<>>]
                    ELSE [out |-> IF ok
                                  THEN SentToHead \o PrintInt(dest) \o PayloadKey
                                       \o payload \o Println(QuoteBrace)
                                  ELSE SentErrorHead \o PrintInt(dest)
                                       \o Println(CloseBrace),
                          sends |-> <<[dest |-> dest % 256,
                                       data |-> SubSeq(payload, 1, len)]>>]

\* forwardSerialToRadio without its check for an empty payload
ForwardWithoutEmptyCheck(line, ok) ==
    IF ~HasPrefix(line, StrTO)
    THEN [out |-> Println(ErrUnknownHead \o line \o QuoteBrace), sends |-> <<>>]
    ELSE
        LET p == SubSeq(line, 4, Len(line))
            dest == Atoi(p)
            colon == StrChr(p, COLON)
        IN  IF colon = 0
            THEN [out |-> Println(ErrBadFormat), sends |-> <<>>]
            ELSE
                LET payload == SubSeq(p, colon + 1, Len(p))
                    len == TrimLen(payload)
                    n == Min(len, SEND_BUF_LEN - 1)
                IN  [out |-> IF ok
                             THEN SentToHead \o PrintInt(dest) \o PayloadKey
                                  \o payload \o Println(QuoteBrace)
                             ELSE SentErrorHead \o PrintInt(dest)
                                  \o Println(CloseBrace),
                     sends |-> <<[dest |-> dest % 256,
                                  data |-> SubSeq(payload, 1, n)]>>]

\* forwardSerialToRadio taking the payload after the last colon of the line
ForwardAfterLastColon(line, ok) ==
    IF ~HasPrefix(line, StrTO)
    THEN [out |-> Println(ErrUnknownHead \o line \o QuoteBrace), sends |-> <<>>]
    ELSE
        LET p == SubSeq(line, 4, Len(line))
            dest == Atoi(p)
            colon == IF StrChr(p, COLON) = 0 THEN 0
                     ELSE CHOOSE i \in 1..Len(p) :
                              p[i] = COLON /\ \A j \in (i + 1)..Len(p) : p[j] # COLON
        IN  IF colon = 0
            THEN [out |-> Println(ErrBadFormat), sends |-> <<>>]
            ELSE
                LET payload == SubSeq(p, colon + 1, Len(p))
                    len == TrimLen(payload)
                    n == Min(len, SEND_BUF_LEN - 1)
                IN  IF len = 0
                    THEN [out |-> Println(ErrEmptyPayload), sends |-> <<>>]
                    ELSE [out |-> IF ok
                                  THEN SentToHead \o PrintInt(dest) \o PayloadKey
                                       \o payload \o Println(QuoteBrace)
                                  ELSE SentErrorHead \o PrintInt(dest)
                                       \o Println(CloseBrace),
                          sends |-> <<[dest |-> dest % 256,
                                       data |-> SubSeq(payload, 1, n)]>>]

\* forwardSerialToRadio(line), with sendWithRetry returning ok: what it prints
\* and what it hands to the radio
ForwardSerialToRadio(line, ok) ==
    IF ~HasPrefix(line, StrTO)
    THEN [out |-> Println(ErrUnknownHead \o line \o QuoteBrace), sends |-> <<>>]
    ELSE
        LET p == SubSeq(line, 4, Len(line))
            dest == Atoi(p)
            colon == StrChr(p, COLON)
        IN  IF colon = 0
            THEN [out |-> Println(ErrBadFormat), sends |-> <<>>]
            ELSE
                LET payload == SubSeq(p, colon + 1, Len(p))
                    len == TrimLen(payload)
                    n == Min(len, SEND_BUF_LEN - 1)
                IN  IF len = 0
                    THEN [out |-> Println(ErrEmptyPayload), sends |-> <<>>]
                    ELSE [out |-> IF ok
                                  THEN SentToHead \o PrintInt(dest) \o PayloadKey
                                       \o payload \o Println(QuoteBrace)
                                  ELSE SentErrorHead \o PrintInt(dest)
                                       \o Println(CloseBrace),
                          sends |-> <<[dest |-> dest % 256,
                                       data |-> SubSeq(payload, 1, n)]>>]

\* the event printed with the payload bytes as they are
RxEventUnescaped(src, rssi, data) ==
    LET n == Min(Len(data), RH_RF69_MAX_MESSAGE_LEN)
    IN RxHead \o PrintInt(src) \o RssiKey \o PrintInt(rssi) \o PayloadKey
       \o SubSeq(data, 1, n) \o Println(QuoteBrace)

\* loop(): the event printed for a received frame
RxEvent(src, rssi, data) ==
    LET n == Min(Len(data), RH_RF69_MAX_MESSAGE_LEN)
    IN RxHead \o PrintInt(src) \o RssiKey \o PrintInt(rssi) \o PayloadKey
       \o EscapeBytes(SubSeq(data, 1, n)) \o Println(QuoteBrace)

\* the state the serial half of loop() works on
DrainState == [buf |-> serialBuf, pos |-> serialPos, out |-> <<>>, sends |-> <<>>,
               raw |-> rawLine, handled |-> <<>>]

\* the loop body storing a byte whenever serialPos < SERIAL_BUF_LEN
ReadByteUpToEnd(st, c, ok) ==
    IF c = CR THEN [st EXCEPT !.raw = Append(@, c)]
    ELSE IF c = LF
    THEN IF st.pos > 0
         THEN LET line == CStr(st.buf \o <<0>>)
                  r == ForwardSerialToRadio(line, ok)
              IN [buf |-> <<>>, pos |-> 0,
                  out |-> st.out \o r.out,
                  sends |-> st.sends \o r.sends,
                  raw |-> <<>>,
                  handled |-> Append(st.handled,
                                 [line |-> st.raw, called |-> TRUE, arg |-> line,
                                  ok |-> ok, out |-> r.out, sends |-> r.sends])]
         ELSE [st EXCEPT !.buf = <<>>, !.pos = 0, !.raw = <<>>,
                         !.handled = Append(@,
                                 [line |-> st.raw, called |-> FALSE, arg |-> <<>>,
                                  ok |-> ok, out |-> <<>>, sends |-> <<>>])]
    ELSE IF st.pos < SERIAL_BUF_LEN
    THEN [st EXCEPT !.buf = Append(@, c), !.pos = @ + 1, !.raw = Append(@, c)]
    ELSE [st EXCEPT !.buf = <<>>, !.pos = 0, !.raw = Append(@, c)]

\* loop(): one pass of the body of while (Serial.available()), for byte c
ReadByte(st, c, ok) ==
    IF c = CR THEN [st EXCEPT !.raw = Append(@, c)]
    ELSE IF c = LF
    THEN IF st.pos > 0
         THEN LET line == CStr(st.buf \o <<0>>)
                  r == ForwardSerialToRadio(line, ok)
              IN [buf |-> <<>>, pos |-> 0,
                  out |-> st.out \o r.out,
                  sends |-> st.sends \o r.sends,
                  raw |-> <<>>,
                  handled |-> Append(st.handled,
                                 [line |-> st.raw, called |-> TRUE, arg |-> line,
                                  ok |-> ok, out |-> r.out, sends |-> r.sends])]
         ELSE [st EXCEPT !.buf = <<>>, !.pos = 0, !.raw = <<>>,
                         !.handled = Append(@,
                                 [line |-> st.raw, called |-> FALSE, arg |-> <<>>,
                                  ok |-> ok, out |-> <<>>, sends |-> <<>>])]
    ELSE IF st.pos < SERIAL_BUF_LEN - 1
    THEN [st EXCEPT !.buf = Append(@, c), !.pos = @ + 1, !.raw = Append(@, c)]
    ELSE [st EXCEPT !.buf = <<>>, !.pos = 0, !.raw = Append(@, c)]

\* loop(): while (Serial.available()) over the bytes that are available
RECURSIVE Drain(_, _, _)
Drain(st, bytes, ok) ==
    IF bytes = <<>> THEN st
    ELSE Drain(ReadByte(st, Head(bytes), ok), Tail(bytes), ok)

(***************************************************************************)
(* What the host and the radio can deliver to the gateway                  *)
(***************************************************************************)
Filler(n, b) == [i \in 1..n |-> b]

\* pieces of serial input; a chunk is what Serial holds when loop() polls it
Chunks ==
    { <<LF>>,
      <<CR, LF>>,
      StrTO,
      <<50, 48, 58>>,                      \* 20:
      <<COLON>>,
      StrOPEN,
      StrTO \o <<50, 48, 58>> \o StrOPEN,  \* TO:20:OPEN
      StrTO \o <<55>>,                     \* TO:7
      Filler(SERIAL_BUF_LEN, 88) }

(***************************************************************************)
(* Gate node: the telemetry payload (the snprintf of                       *)
(* sendTelemetryToGateway). Voltages are in millivolts.                    *)
(***************************************************************************)
\* {"src":
KeySrc == <<123, 34, 115, 114, 99, 34, 58>>
\* ,"gate_state":"
KeyGateState == <<44, 34, 103, 97, 116, 101, 95, 115, 116, 97, 116, 101, 34, 58, 34>>
\* ","limit_open":
KeyLimitOpen == <<34, 44, 34, 108, 105, 109, 105, 116, 95, 111, 112, 101, 110, 34, 58>>
\* ,"limit_closed":
KeyLimitClosed == <<44, 34, 108, 105, 109, 105, 116, 95, 99, 108, 111, 115, 101, 100, 34, 58>>
\* ,"photoeye_blocked":
KeyPhotoeye == <<44, 34, 112, 104, 111, 116, 111, 101, 121, 101, 95, 98, 108, 111, 99, 107, 101, 100, 34, 58>>
\* ,"free_exit":
KeyFreeExit == <<44, 34, 102, 114, 101, 101, 95, 101, 120, 105, 116, 34, 58>>
\* ,"battery_voltage":
KeyBatteryVoltage == <<44, 34, 98, 97, 116, 116, 101, 114, 121, 95, 118, 111, 108, 116, 97, 103, 101, 34, 58>>
\* ,"battery_pct":
KeyBatteryPct == <<44, 34, 98, 97, 116, 116, 101, 114, 121, 95, 112, 99, 116, 34, 58>>
\* ,"solar_voltage":
KeySolarVoltage == <<44, 34, 115, 111, 108, 97, 114, 95, 118, 111, 108, 116, 97, 103, 101, 34, 58>>
\* ,"charging":
KeyCharging == <<44, 34, 99, 104, 97, 114, 103, 105, 110, 103, 34, 58>>
\* ,"rssi":
KeyRssi == <<44, 34, 114, 115, 115, 105, 34, 58>>
\* ,"radio_temp_c":
KeyRadioTemp == <<44, 34, 114, 97, 100, 105, 111, 95, 116, 101, 109, 112, 95, 99, 34, 58>>
\* ,"uptime_s":
KeyUptime == <<44, 34, 117, 112, 116, 105, 109, 101, 95, 115, 34, 58>>

\* the text of gate_state
StateText(g) ==
    IF g = "open" THEN <<111, 112, 101, 110>>
    ELSE IF g = "closed" THEN <<99, 108, 111, 115, 101, 100>>
    ELSE IF g = "moving" THEN <<109, 111, 118, 105, 110, 103>>
    ELSE <<117, 110, 107, 110, 111, 119, 110>>

\* %d of a bool
PrintBool(b) == IF b THEN <<49>> ELSE <<48>>

\* %.2f of a voltage of mv millivolts
PrintVolts(mv) ==
    LET c == (mv + 5) \div 10
    IN Digits(c \div 100) \o <<46, 48 + ((c \div 10) % 10), 48 + (c % 10)>>

\* charging = (vsolar > (vbatt + 0.2f))
Charging(vbatt, vsolar) == vsolar > vbatt + 200

\* the payload sendTelemetryToGateway formats from the inputs `in` it samples
TelemetryText(in) ==
    KeySrc \o PrintInt(RF_NODE_ID)
    \o KeyGateState \o StateText(GateState(in.limitOpen, in.limitClosed))
    \o KeyLimitOpen \o PrintBool(in.limitOpen)
    \o KeyLimitClosed \o PrintBool(in.limitClosed)
    \o KeyPhotoeye \o PrintBool(in.photoeyeBlocked)
    \o KeyFreeExit \o PrintBool(in.freeExit)
    \o KeyBatteryVoltage \o PrintVolts(in.vbatt)
    \o KeyBatteryPct \o PrintInt(BatteryPctFromVoltage(in.vbatt))
    \o KeySolarVoltage \o PrintVolts(in.vsolar)
    \o KeyCharging \o PrintBool(Charging(in.vbatt, in.vsolar))
    \o KeyRssi \o PrintInt(in.rssi)
    \o KeyRadioTemp \o PrintInt(in.radio_temp)
    \o KeyUptime \o PrintInt(UptimeSeconds(in.ms))
    \o CloseBrace

\* what the gate node samples for a snapshot
TelemetryInputs ==
    [limitOpen : BOOLEAN, limitClosed : BOOLEAN, photoeyeBlocked : {FALSE},
     freeExit : {FALSE}, vbatt : {12550}, vsolar : {13100}, rssi : {-61},
     radio_temp : {24}, ms : {SETUP_DELAY_MS}]

TelemetryTexts == {TelemetryText(in) : in \in TelemetryInputs}

NoFrame == [sender |-> 0, rssi |-> 0, data |-> <<>>, valid |-> FALSE]

FramePayloads ==
    { StrACK,
      <<97, QUOTE, 98, BACKSLASH>>,        \* a"b\
      <<65, LF, 66>>,                      \* A, newline, B
      <<>>,
      Filler(RH_RF69_MAX_MESSAGE_LEN + 1, 65) }

\* (SENDERID, readRSSI) of the frames
FrameOrigins == {<<RF_NODE_ID, -90>>, <<7, -5>>}

\* the telemetry frames of the gate node, as sent; the payload is longer than
\* the gateway's payload buffer
TelemetryFrames ==
    {[sender |-> RF_NODE_ID, rssi |-> -90, data |-> t, valid |-> TRUE] :
        t \in TelemetryTexts}

Frames ==
    {[sender |-> o[1], rssi |-> o[2], data |-> d, valid |-> TRUE] :
        o \in FrameOrigins, d \in FramePayloads}
    \cup TelemetryFrames

(***************************************************************************)
(* Lines of serial output                                                  *)
(***************************************************************************)
CountOf(s, b) == Cardinality({i \in 1..Len(s) : s[i] = b})

\* the lines of a byte stream: split after every LF, a CR before it dropped
RECURSIVE LinesOf(_)
LinesOf(s) ==
    IF s = <<>> THEN <<>>
    ELSE LET i == StrChr(s, LF) IN
         IF i = 0 THEN <<s>>
         ELSE LET body == SubSeq(s, 1, i - 1)
                  text == IF body # <<>> /\ body[Len(body)] = CR
                          THEN SubSeq(body, 1, Len(body) - 1) ELSE body
              IN <<text>> \o LinesOf(SubSeq(s, i + 1, Len(s)))

\* {"err":
ErrHeadBytes == <<123, 34, 101, 114, 114, 34, 58>>

IsEventLine(l) ==
    \/ HasPrefix(l, RxHead)
    \/ HasPrefix(l, SentToHead)
    \/ HasPrefix(l, SentErrorHead)
    \/ HasPrefix(l, ErrHeadBytes)

MarkersIn(s) == Cardinality({i \in 1..Len(LinesOf(s)) : LinesOf(s)[i] = ReadyMarker})

\* event lines of s that come before the first marker line of s (all of them
\* when s holds no marker)
EventsBeforeMarker(s) ==
    LET ls == LinesOf(s)
        m == IF \E i \in 1..Len(ls) : ls[i] = ReadyMarker
             THEN CHOOSE i \in 1..Len(ls) :
                      ls[i] = ReadyMarker /\ \A j \in 1..(i - 1) : ls[j] # ReadyMarker
             ELSE Len(ls) + 1
    IN Cardinality({i \in 1..(m - 1) : IsEventLine(ls[i])})

\* history counters, updated with the bytes a step writes
Counted(n, k) == Min(n + k, 2)

(***************************************************************************)
(* Gateway node: setup() and loop()                                        *)
(***************************************************************************)
BridgeInit ==
    /\ bpc = "setup"
    /\ serialBuf = <<>>
    /\ serialPos = 0
    /\ frame = NoFrame
    /\ serialOut = <<>>
    /\ radioSent = <<>>
    /\ rawLine = <<>>
    /\ handled = <<>>
    /\ readyCount = 0
    /\ earlyEvents = 0
    /\ chunksUsed = 0
    /\ framesUsed = 0

\* setup() printing the marker only when the radio came up
SetupOutputMarkerOnSuccess(initOk) ==
    IF initOk THEN Println(MsgInitOk) \o Println(ReadyMarker)
    ELSE Println(MsgInitFailed)

\* setup(): what it prints, initOk being the result of rf69.initialize
SetupOutput(initOk) ==
    Println(IF initOk THEN MsgInitOk ELSE MsgInitFailed) \o Println(ReadyMarker)

\* history: the bytes `out` are written to Serial
Written(out) ==
    /\ readyCount' = Counted(readyCount, MarkersIn(out))
    /\ earlyEvents' =
          IF readyCount = 0 THEN Counted(earlyEvents, EventsBeforeMarker(out))
          ELSE earlyEvents

\* setup()
BridgeSetup ==
    /\ bpc = "setup"
    /\ \E initOk \in BOOLEAN :
          /\ serialOut' = SetupOutput(initOk)
          /\ Written(serialOut')
    /\ bpc' = "rx"
    /\ UNCHANGED <<serialBuf, serialPos, frame, radioSent, rawLine, handled,
                   chunksUsed, framesUsed>>
    /\ UNCHANGED gvars
    /\ UNCHANGED xvars

\* loop(): rf69.receiveDone() is true: one JSON line for the frame
BridgeReceiveStep(f) ==
    /\ bpc = "rx"
    /\ frame' = f
    /\ serialOut' = RxEvent(f.sender, f.rssi, f.data)
    /\ Written(serialOut')
    /\ radioSent' = <<>>
    /\ handled' = <<>>
    /\ bpc' = "serial"
    /\ UNCHANGED <<serialBuf, serialPos, rawLine, chunksUsed>>

\* the frame is any of the frames the radio can deliver
BridgeReceive ==
    /\ framesUsed < MaxFrames
    /\ \E f \in Frames : BridgeReceiveStep(f)
    /\ framesUsed' = framesUsed + 1
    /\ UNCHANGED gvars
    /\ UNCHANGED xvars

\* loop(): rf69.receiveDone() is false
BridgeNoReceive ==
    /\ bpc = "rx"
    /\ frame' = NoFrame
    /\ serialOut' = <<>>
    /\ radioSent' = <<>>
    /\ handled' = <<>>
    /\ bpc' = "serial"
    /\ UNCHANGED <<serialBuf, serialPos, rawLine, readyCount, earlyEvents,
                   chunksUsed, framesUsed>>
    /\ UNCHANGED gvars
    /\ UNCHANGED xvars

\* loop(): the serial half, with bytes available; then delay(10)
BridgeSerialStep(c, ok) ==
    /\ bpc = "serial"
    /\ LET st == Drain(DrainState, c, ok) IN
          /\ serialBuf' = st.buf
          /\ serialPos' = st.pos
          /\ rawLine' = st.raw
          /\ handled' = st.handled
          /\ radioSent' = st.sends
          /\ serialOut' = serialOut \o st.out
          /\ Written(st.out)
    /\ bpc' = "rx"
    /\ UNCHANGED frame

\* the bytes available are any of the chunks, sendWithRetry returns ok
BridgeSerial ==
    /\ chunksUsed < MaxChunks
    /\ \E c \in Chunks, ok \in BOOLEAN : BridgeSerialStep(c, ok)
    /\ chunksUsed' = chunksUsed + 1
    /\ UNCHANGED framesUsed
    /\ UNCHANGED gvars
    /\ UNCHANGED xvars

\* loop(): the serial half, with nothing available; then delay(10)
BridgeSerialIdle ==
    /\ bpc = "serial"
    /\ bpc' = "rx"
    /\ UNCHANGED <<serialBuf, serialPos, frame, serialOut, radioSent, rawLine, handled,
                   readyCount, earlyEvents, chunksUsed, framesUsed>>
    /\ UNCHANGED gvars
    /\ UNCHANGED xvars

BridgeNext ==
    \/ BridgeSetup
    \/ BridgeReceive
    \/ BridgeNoReceive
    \/ BridgeSerial
    \/ BridgeSerialIdle


(***************************************************************************)
(* Gate node: battery percentage. Voltages are in millivolts; on this grid *)
(* the float arithmetic of the sketch and exact arithmetic agree.          *)
(***************************************************************************)
\* the voltages readBatteryVoltage() is taken to return
Volts ==
    {v \in (BATTERY_VOLTS_MIN - VoltMargin)..(BATTERY_VOLTS_MAX + VoltMargin) :
        v % 25 = 0}

BatteryInit == readings = <<>>

\* sendTelemetryToGateway: vbatt = readBatteryVoltage();
\* batteryPctFromVoltage(vbatt)
BatterySample ==
    /\ \E v \in Volts :
          LET r == [v |-> v, pct |-> BatteryPctFromVoltage(v)] IN
          readings' = IF Len(readings) < 2 THEN Append(readings, r)
                      ELSE <<readings[2], r>>
    /\ UNCHANGED gvars
    /\ UNCHANGED bvars
    /\ UNCHANGED lvars
    /\ UNCHANGED <<ovars, hvars, dvars>>

BatteryNext == BatterySample

(***************************************************************************)
(* The two nodes joined by a radio link that delivers every frame, in      *)
(* order; sendWithRetry waits while the link is full.                      *)
(***************************************************************************)
LinkInit ==
    /\ toGate = <<>>
    /\ toBridge = <<>>
    /\ cmdsUsed = 0
    /\ phase = "idle"
    /\ sampledText = <<>>
    /\ afterAck = <<>>

Last(q) == q[Len(q)]

\* the serial line TO:20:OPEN with its newline
CmdLine == StrTO \o PrintInt(RF_NODE_ID) \o <<COLON>> \o StrOPEN \o <<LF>>

\* the text sendTelemetryToGateway formats for the snapshot of a send
TextOfSend(t) ==
    TelemetryText([limitOpen |-> t.snap.limit_open,
                   limitClosed |-> t.snap.limit_closed,
                   photoeyeBlocked |-> FALSE, freeExit |-> FALSE,
                   vbatt |-> 12550, vsolar |-> 13100, rssi |-> -61,
                   radio_temp |-> 24, ms |-> t.snap.uptime_s * 1000])

\* the frame a gate node's sendWithRetry puts on the air
FrameOfSend(t) ==
    [sender |-> RF_NODE_ID, rssi |-> -90, valid |-> TRUE,
     data |-> IF t.kind = "ack" THEN t.data ELSE TextOfSend(t)]

\* rf69.sendWithRetry of the gate node, to the gateway's id
GateTransmit(t) ==
    /\ Len(toBridge) < MaxInFlight
    /\ toBridge' = IF t.dest = RF_GATEWAY_ID
                   THEN Append(toBridge, FrameOfSend(t)) ELSE toBridge

LinkGateSetup ==
    /\ GateSetupStep
    /\ GateTransmit(Last(bootSends'))
    /\ UNCHANGED <<ovars, hvars, dvars, readings, toGate, cmdsUsed, phase, sampledText, afterAck>>
    /\ UNCHANGED bvars

LinkGateReceive ==
    /\ toGate # <<>>
    /\ LoopReceiveStep(Head(toGate).sender, Head(toGate).data)
    /\ toGate' = Tail(toGate)
    /\ UNCHANGED <<ovars, hvars, dvars, readings, toBridge, cmdsUsed, phase, sampledText, afterAck>>
    /\ UNCHANGED bvars

LinkGateNoReceive ==
    /\ toGate = <<>>
    /\ LoopNoReceive

LinkSendAck ==
    /\ SendAckStep
    /\ GateTransmit(Last(glog'))
    /\ UNCHANGED <<ovars, hvars, dvars, readings, toGate, cmdsUsed, phase, sampledText, afterAck>>
    /\ UNCHANGED bvars

LinkSendCmdTelemetry ==
    /\ SendCmdTelemetryStep
    /\ GateTransmit(Last(glog'))
    /\ sampledText' = TextOfSend(Last(glog'))
    /\ UNCHANGED <<ovars, hvars, dvars, readings, toGate, cmdsUsed, phase, afterAck>>
    /\ UNCHANGED bvars

LinkPeriodicTelemetry ==
    /\ PeriodicTelemetryStep
    /\ GateTransmit(Last(glog'))
    /\ UNCHANGED <<ovars, hvars, dvars, readings, toGate, cmdsUsed, phase, sampledText, afterAck>>
    /\ UNCHANGED bvars

LinkGateNext ==
    \/ LinkGateSetup
    \/ LinkGateReceive
    \/ LinkGateNoReceive
    \/ PulseEnd
    \/ LinkSendAck
    \/ LinkSendCmdTelemetry
    \/ LinkPeriodicTelemetry
    \/ PeriodicSkip
    \/ LoopDelay

\* history: the gateway has written a reception event for frame f
Observed(f) ==
    IF phase = "sent" /\ f.sender = RF_NODE_ID /\ f.data = StrACK
    THEN phase' = "acked" /\ UNCHANGED afterAck
    ELSE IF phase = "acked" /\ f.sender = RF_NODE_ID
    THEN phase' = "done" /\ afterAck' = serialOut'
    ELSE UNCHANGED <<phase, afterAck>>

LinkBridgeReceive ==
    /\ toBridge # <<>>
    /\ BridgeReceiveStep(Head(toBridge))
    /\ toBridge' = Tail(toBridge)
    /\ Observed(Head(toBridge))
    /\ UNCHANGED <<ovars, hvars, dvars, readings, toGate, cmdsUsed, sampledText, framesUsed>>
    /\ UNCHANGED gvars

LinkBridgeNoReceive ==
    /\ toBridge = <<>>
    /\ BridgeNoReceive

\* the host writes TO:20:OPEN; the frame goes on the air whatever
\* sendWithRetry reports
LinkBridgeSerial ==
    /\ cmdsUsed < MaxCmds
    /\ phase \in {"idle", "done"}
    /\ Len(toGate) < MaxInFlight
    /\ \E ok \in BOOLEAN : BridgeSerialStep(CmdLine, ok)
    /\ toGate' = toGate \o [i \in 1..Len(radioSent') |->
                                [sender |-> RF_GATEWAY_ID, data |-> radioSent'[i].data]]
    /\ phase' = IF \E i \in 1..Len(radioSent') : radioSent'[i].dest = RF_NODE_ID
                THEN "sent" ELSE phase
    /\ cmdsUsed' = cmdsUsed + 1
    /\ UNCHANGED <<ovars, hvars, dvars, readings, toBridge, sampledText, afterAck, chunksUsed, framesUsed>>
    /\ UNCHANGED gvars

LinkBridgeNext ==
    \/ BridgeSetup
    \/ LinkBridgeReceive
    \/ LinkBridgeNoReceive
    \/ LinkBridgeSerial
    \/ BridgeSerialIdle

LinkNext == LinkGateNext \/ LinkBridgeNext

(***************************************************************************)
(* Host translator: apertus_serial_mqtt_bridge.py.  The repository holds   *)
(* only a placeholder of the script; its behaviour is taken from the       *)
(* specification, sections 4.3 and 6.                                      *)
(***************************************************************************)
\* node ids that appear in topics <prefix>/<node-id>/...
Nodes == {RF_NODE_ID, RF_NODE_ID + 1}

StrFOO == <<70, 79, 79>>

\* payloads of command messages: vocabulary words, with a trailing newline,
\* empty, outside the vocabulary, with a newline inside
CmdPayloads ==
    {StrOPEN, StrOPEN \o <<LF>>, StrSTOP \o <<LF>>, <<>>, StrFOO,
     StrOPEN \o <<LF>> \o StrSTOP}

\* a translator that writes the payload with its trailing newline
KeepTrailingNewline(p) == p

\* trailing-newline stripping of the payload
StripTrailingNewline(p) ==
    IF p # <<>> /\ p[Len(p)] = LF THEN SubSeq(p, 1, Len(p) - 1) ELSE p

\* the serial line TO:<node-id>:<command-text>\n
CommandLine(node, payload) ==
    StrTO \o PrintInt(node) \o <<COLON>> \o StripTrailingNewline(payload) \o <<LF>>

HostInit ==
    /\ cmdMsgs = <<>>
    /\ hostWrites = <<>>
    /\ published = {}
    /\ brokerRetained = {}
    /\ silent = {}
    /\ subscriber = [connected |-> FALSE, silentThen |-> {}, received |-> {}]

\* inbound-message callback of the subscription <prefix>/+/cmd
OnCommandMessage ==
    /\ Len(cmdMsgs) < MaxCmdMsgs
    /\ \E n \in Nodes, p \in CmdPayloads :
          /\ cmdMsgs' = Append(cmdMsgs, [node |-> n, payload |-> p])
          /\ hostWrites' = Append(hostWrites, CommandLine(n, p))
    /\ UNCHANGED <<published, brokerRetained, silent, subscriber>>
    /\ UNCHANGED <<gvars, bvars, readings, lvars, dvars, ovars>>

\* the scalar topics <prefix>/<node-id>/<field> and the full snapshot topic
TelemetryLeaves ==
    {"telemetry", "state", "battery_voltage", "battery_pct", "solar_voltage",
     "charging", "rssi", "radio_temp_c", "uptime_s", "photoeye_blocked", "free_exit"}

TelemetryTopics(n) == {[kind |-> "telemetry", node |-> n, leaf |-> f] : f \in TelemetryLeaves}

\* one descriptor per entity: the cover and every telemetry sensor
DiscoveryTopics(n) ==
    {[kind |-> "discovery", node |-> n, leaf |-> f] : f \in (TelemetryLeaves \ {"telemetry"}) \cup {"cover"}}

\* a translator that publishes telemetry with the retained flag
TelemetryRetainedToo == TRUE

\* retention policy
TelemetryRetain == FALSE
DiscoveryRetain == TRUE

\* publish(topic, payload, retain) for every topic of the set: the broker
\* keeps a retained message and hands the message to a connected subscriber
Publish(topics, retain) ==
    /\ published' = published \cup {[topic |-> t, retain |-> retain] : t \in topics}
    /\ brokerRetained' = IF retain THEN brokerRetained \cup topics ELSE brokerRetained
    /\ subscriber' = IF subscriber.connected
                     THEN [subscriber EXCEPT !.received = @ \cup topics]
                     ELSE subscriber

\* on connect and on the ready marker: the discovery descriptors
PublishDiscovery ==
    /\ \E n \in Nodes : Publish(DiscoveryTopics(n), DiscoveryRetain)
    /\ UNCHANGED <<cmdMsgs, hostWrites, silent>>
    /\ UNCHANGED <<gvars, bvars, readings, lvars, dvars, ovars>>

\* a telemetry object read from the serial endpoint: the full snapshot topic
\* and the per-field topics
OnTelemetryLine ==
    /\ \E n \in Nodes \ silent : Publish(TelemetryTopics(n), TelemetryRetain)
    /\ UNCHANGED <<cmdMsgs, hostWrites, silent>>
    /\ UNCHANGED <<gvars, bvars, readings, lvars, dvars, ovars>>

\* a node stops reporting
NodeGoesSilent ==
    /\ \E n \in Nodes \ silent : silent' = silent \cup {n}
    /\ UNCHANGED <<cmdMsgs, hostWrites, published, brokerRetained, subscriber>>
    /\ UNCHANGED <<gvars, bvars, readings, lvars, dvars, ovars>>

\* a bus client subscribes to every topic: the broker hands it the retained
\* messages
SubscriberConnects ==
    /\ ~subscriber.connected
    /\ subscriber' = [connected |-> TRUE, silentThen |-> silent, received |-> brokerRetained]
    /\ UNCHANGED <<cmdMsgs, hostWrites, published, brokerRetained, silent>>
    /\ UNCHANGED <<gvars, bvars, readings, lvars, dvars, ovars>>

PublishNext ==
    \/ PublishDiscovery
    \/ OnTelemetryLine
    \/ NodeGoesSilent
    \/ SubscriberConnects

(***************************************************************************)
(* Serial autodetect: apertus-detect-serial.py.  The repository holds only *)
(* a placeholder of the script; its behaviour is taken from the            *)
(* specification, section 4.4.                                             *)
(***************************************************************************)
\* /dev/ttyUSB* and /dev/ttyACM*, in enumeration order
DevicePaths == <<"/dev/ttyUSB0", "/dev/ttyUSB1", "/dev/ttyACM0">>

Enumerate(attached) == SelectSeq(DevicePaths, LAMBDA d : d \in attached)

\* what a device sends within the timeout: nothing, the gateway's setup()
\* output, or that output cut before the marker line
DeviceOutputs == {<<>>, SetupOutput(TRUE), SetupOutput(FALSE), Println(MsgInitOk)}

\* a probe that takes any output for the marker
EmitsAnything(out) == out # <<>>

\* a line matching the readiness marker was read
EmitsMarker(out) == \E i \in DOMAIN LinesOf(out) : LinesOf(out)[i] = ReadyMarker

DetectInit ==
    /\ dpc = "start"
    /\ candidates = <<>>
    /\ outputs = <<>>
    /\ probeIdx = 0
    /\ persisted = "none"
    /\ persistedBefore = "none"
    /\ envWrites = <<>>

\* the run begins: the candidates are enumerated; the devices attached, what
\* they send and the configuration persisted earlier are the run's inputs
DetectEnumerate ==
    /\ dpc = "start"
    /\ \E attached \in SUBSET {DevicePaths[i] : i \in DOMAIN DevicePaths} :
       \E outs \in [attached -> DeviceOutputs] :
       \E before \in {"none"} \cup {DevicePaths[i] : i \in DOMAIN DevicePaths} :
          /\ candidates' = Enumerate(attached)
          /\ outputs' = outs
          /\ persisted' = before
          /\ persistedBefore' = before
    /\ probeIdx' = 1
    /\ dpc' = "probe"
    /\ UNCHANGED envWrites
    /\ UNCHANGED <<gvars, bvars, readings, lvars, hvars, ovars>>

\* the candidate produced the marker within its timeout: persist its path
ProbeSelect ==
    /\ dpc = "probe"
    /\ probeIdx <= Len(candidates)
    /\ EmitsMarker(outputs[candidates[probeIdx]])
    /\ persisted' = candidates[probeIdx]
    /\ envWrites' = Append(envWrites, candidates[probeIdx])
    /\ dpc' = "ok"
    /\ UNCHANGED <<candidates, outputs, probeIdx, persistedBefore>>
    /\ UNCHANGED <<gvars, bvars, readings, lvars, hvars, ovars>>

\* the timeout passed without the marker: the next candidate
ProbeTimeout ==
    /\ dpc = "probe"
    /\ probeIdx <= Len(candidates)
    /\ ~EmitsMarker(outputs[candidates[probeIdx]])
    /\ probeIdx' = probeIdx + 1
    /\ UNCHANGED <<dpc, candidates, outputs, persisted, persistedBefore, envWrites>>
    /\ UNCHANGED <<gvars, bvars, readings, lvars, hvars, ovars>>

\* no candidate produced the marker: the run fails
DetectFail ==
    /\ dpc = "probe"
    /\ probeIdx > Len(candidates)
    /\ dpc' = "failed"
    /\ UNCHANGED <<candidates, outputs, probeIdx, persisted, persistedBefore, envWrites>>
    /\ UNCHANGED <<gvars, bvars, readings, lvars, hvars, ovars>>

DetectNext ==
    \/ DetectEnumerate
    \/ ProbeSelect
    \/ ProbeTimeout
    \/ DetectFail

(***************************************************************************)
(* Gate node: the results of rf69.sendWithRetry.  The sketch calls it as a *)
(* statement (lines 132 and 182): its result is not read.                  *)
(***************************************************************************)
SendsInit == sendLog = <<>>

\* history: a send made for `cause` returned ok
SendResult(cause, ok) == [cause |-> cause, ok |-> ok]

\* what is carried from one step to the next outside the gate node
SendsRest == <<readings, lvars, hvars, dvars, payloadOut, fwd>>

SendsGateSetup ==
    /\ GateSetupStep
    /\ \E ok \in BOOLEAN : sendLog' = Append(sendLog, SendResult("boot", ok))
    /\ UNCHANGED bvars
    /\ UNCHANGED SendsRest

SendsReceive ==
    /\ \E d \in {StrOPEN, <<>>} : LoopReceiveStep(RF_GATEWAY_ID, d)
    /\ UNCHANGED sendLog
    /\ UNCHANGED bvars
    /\ UNCHANGED SendsRest

SendsAck ==
    /\ SendAckStep
    /\ \E ok \in BOOLEAN : sendLog' = Append(sendLog, SendResult("ack", ok))
    /\ UNCHANGED bvars
    /\ UNCHANGED SendsRest

SendsCmdTelemetry ==
    /\ SendCmdTelemetryStep
    /\ \E ok \in BOOLEAN : sendLog' = Append(sendLog, SendResult("command", ok))
    /\ UNCHANGED bvars
    /\ UNCHANGED SendsRest

\* periodic telemetry that keeps the period due when the send failed
SendsPeriodicRetried ==
    /\ \E ok \in BOOLEAN :
          /\ sendLog' = Append(sendLog, SendResult("periodic", ok))
          /\ IF ok THEN PeriodicTelemetryStep
             ELSE /\ gpc = "period"
                  /\ PeriodDue(millis, lastTelemetryMs)
                  /\ \E lo \in BOOLEAN, lc \in BOOLEAN :
                        glog' = Append(glog, TelemetrySend("periodic", lo, lc, millis))
                  /\ gpc' = "delay"
                  /\ UNCHANGED <<pins, pulsePinArg, millis, rx, bootSends,
                                 lastTelemetryMs, sinceLast>>
                  /\ uptimeLog' = Logged(uptimeLog, UptimeSeconds(millis))
    /\ UNCHANGED bvars
    /\ UNCHANGED SendsRest

SendsPeriodicTelemetry ==
    /\ PeriodicTelemetryStep
    /\ \E ok \in BOOLEAN : sendLog' = Append(sendLog, SendResult("periodic", ok))
    /\ UNCHANGED bvars
    /\ UNCHANGED SendsRest

SendsLoopDelay ==
    /\ LoopDelayStep
    /\ sendLog' = <<>>
    /\ UNCHANGED bvars
    /\ UNCHANGED SendsRest

SendsNext ==
    \/ SendsGateSetup
    \/ SendsReceive
    \/ LoopNoReceive
    \/ PulseEnd
    \/ SendsAck
    \/ SendsCmdTelemetry
    \/ SendsPeriodicTelemetry
    \/ PeriodicSkip
    \/ SendsLoopDelay

(***************************************************************************)
(* Gate node: the payloads handed to rf69.sendWithRetry                    *)
(***************************************************************************)
\* the payload bound of a radio frame: uint8_t sendBuf[192] of the gateway,
\* unscaled
RADIO_FRAME_MAX == 192

\* what sendTelemetryToGateway can sample: the digital inputs, the two
\* voltages between 0 V and 5 V * 4.03 = 20.15 V (in millivolts), signal
\* strength, temperature and millis()
SensorInputs ==
    [limitOpen : BOOLEAN, limitClosed : BOOLEAN, photoeyeBlocked : BOOLEAN,
     freeExit : BOOLEAN, vbatt : {0, 12550, 20150}, vsolar : {0, 13100},
     rssi : {0, -61, -100}, radio_temp : {0, 24}, ms : {0, MillisWrap - 1}]

PayloadInit == payloadOut = <<>>

\* sendTelemetryToGateway: rf69.sendWithRetry(RF_GATEWAY_ID, payload, n)
PayloadTelemetry ==
    /\ \E in \in SensorInputs : payloadOut' = TelemetryText(in)
    /\ UNCHANGED <<gvars, bvars, readings, lvars, hvars, dvars, sendLog, fwd>>

\* loop(): rf69.sendWithRetry(RF_GATEWAY_ID, ack, strlen(ack))
PayloadAck ==
    /\ payloadOut' = StrACK
    /\ UNCHANGED <<gvars, bvars, readings, lvars, hvars, dvars, sendLog, fwd>>

PayloadNext == PayloadTelemetry \/ PayloadAck

(***************************************************************************)
(* Gateway node: forwardSerialToRadio called on one line                   *)
(***************************************************************************)
\* destination tokens: 20, 255, 256, 300, -1, x, empty, 7x, 32768, 65556
DestTokens ==
    {<<50, 48>>, <<50, 53, 53>>, <<50, 53, 54>>, <<51, 48, 48>>, <<45, 49>>, <<120>>,
     <<>>, <<55, 120>>, <<51, 50, 55, 54, 56>>, <<54, 53, 53, 53, 54>>}

\* payload texts: OPEN, STOP, a:b, one byte, none, OPEN:, and one longer
\* than sendBuf
ForwardPayloads ==
    {StrOPEN, StrSTOP, <<97, COLON, 98>>, <<88>>, <<>>, StrOPEN \o <<COLON>>,
     Filler(SEND_BUF_LEN + 1, 88)}

NoCall == [line |-> <<>>, ok |-> FALSE, out |-> <<>>, sends |-> <<>>]

ForwardInit == fwd = NoCall

\* forwardSerialToRadio(line) for a line TO:<token>:<payload>
ForwardCall ==
    /\ \E t \in DestTokens, d \in ForwardPayloads, ok \in BOOLEAN :
          LET line == StrTO \o t \o <<COLON>> \o d
              r == ForwardSerialToRadio(line, ok)
          IN fwd' = [line |-> line, ok |-> ok, out |-> r.out, sends |-> r.sends]
    /\ UNCHANGED <<gvars, bvars, readings, lvars, hvars, dvars, sendLog, payloadOut>>

Init == GateInit /\ BridgeInit /\ BatteryInit /\ LinkInit /\ HostInit /\ DetectInit /\ SendsInit /\ PayloadInit /\ ForwardInit

Next ==
    \/ GateSetup
    \/ LoopReceive
    \/ LoopNoReceive
    \/ PulseEnd
    \/ SendAck
    \/ SendCmdTelemetry
    \/ PeriodicTelemetry
    \/ PeriodicSkip
    \/ LoopDelay

Spec == Init /\ [][Next]_vars

SpecFair == Spec /\ WF_vars(Next)

SpecBridge == Init /\ [][BridgeNext]_vars

SpecBattery == Init /\ [][BatteryNext]_vars

SpecCommand == Init /\ [][OnCommandMessage]_vars

SpecPublish == Init /\ [][PublishNext]_vars

SpecDetect == Init /\ [][DetectNext]_vars

SpecSends == Init /\ [][SendsNext]_vars

SpecPayload == Init /\ [][PayloadNext]_vars

SpecForward == Init /\ [][ForwardCall]_vars

\* both loops are run again and again
SpecLink ==
    Init /\ [][LinkNext]_vars /\ WF_vars(LinkGateNext) /\ WF_vars(LinkBridgeNext)

(***************************************************************************)
(* Properties of the gate node                                             *)
(***************************************************************************)
IsPin(e) == e.ev = "pin"
IsSend(e) == e.ev = "send"
IsReply(e) == e.ev = "send" /\ e.cause = "command"
IsPeriodic(e) == e.ev = "send" /\ e.cause = "periodic"

PinEvents == SelectSeq(glog, IsPin)
Replies == SelectSeq(glog, IsReply)
PeriodicSends == SelectSeq(glog, IsPeriodic)

AllLow == \A p \in ActuatorPins : pins[p] = "LOW"

\* the actuator output the specification maps to each command word
WordPin(w) ==
    CASE w = StrOPEN -> PIN_ACT_OPEN
      [] w = StrCLOSE -> PIN_ACT_CLOSE
      [] w = StrSTOP -> PIN_ACT_STOP
      [] w = StrLATCH -> PIN_ACT_LATCH
      [] w = StrUNLATCH -> PIN_ACT_UNLATCH
      [] w = StrTIMER_CLOSE -> PIN_ACT_TIMER

\* C1: while a reception whose payload is not, byte for byte, one of the six
\* command words is handled, no actuator output is asserted.
C1_UnknownPayloadNoPulse ==
    (rx.valid /\ rx.data \notin Words) => (PinEvents = <<>> /\ AllLow)

\* C2: a reception whose payload is exactly a command word asserts the one
\* output mapped to the word, once, and deasserts it before the handling goes
\* on; no other output changes.
C2_CommandPulsesItsPin ==
    (rx.valid /\ rx.data \in Words) =>
        LET p == WordPin(rx.data) IN
        /\ gpc = "pulse" =>
              /\ glog = <<PinWrite(p, "HIGH")>>
              /\ \A q \in ActuatorPins : pins[q] = (IF q = p THEN "HIGH" ELSE "LOW")
        /\ gpc # "pulse" =>
              /\ PinEvents = <<PinWrite(p, "HIGH"), PinWrite(p, "LOW")>>
              /\ SubSeq(glog, 1, 2) = PinEvents
              /\ AllLow

C2_Witness ==
    /\ gpc = "ack"
    /\ rx.data = StrTIMER_CLOSE
    /\ glog = <<PinWrite(PIN_ACT_TIMER, "HIGH"), PinWrite(PIN_ACT_TIMER, "LOW")>>

\* C7: the replies to a matched command are one ACK and then one fresh
\* telemetry snapshot, both sent after the output was deasserted and both
\* addressed to the gateway id, whoever sent the command.
C7_AckThenTelemetry ==
    (rx.valid /\ rx.data \in Words) =>
        /\ gpc = "pulse" => Replies = <<>>
        /\ gpc = "ack" => Replies = <<>> /\ AllLow
        /\ gpc = "telemetry" =>
              /\ Len(glog) = 3 /\ glog[2] = PinWrite(WordPin(rx.data), "LOW")
              /\ glog[3].kind = "ack" /\ glog[3].data = StrACK
              /\ glog[3].dest = RF_GATEWAY_ID
              /\ AllLow
        /\ gpc \in {"period", "delay"} =>
              /\ Len(Replies) = 2 /\ SubSeq(glog, 3, 4) = Replies
              /\ Replies[1].kind = "ack" /\ Replies[1].data = StrACK
              /\ Replies[2].kind = "telemetry"
              /\ \A i \in 1..2 : Replies[i].dest = RF_GATEWAY_ID
              /\ AllLow
        /\ gpc = "period" =>
              /\ Replies[2].snap.uptime_s = UptimeSeconds(millis)
              /\ Replies[2].snap.gate_state =
                    GateState(Replies[2].snap.limit_open, Replies[2].snap.limit_closed)

C7_Witness ==
    /\ gpc = "period"
    /\ rx.valid /\ rx.data = StrOPEN /\ rx.sender # RF_GATEWAY_ID
    /\ Len(Replies) = 2
    /\ Replies[1].dest = RF_GATEWAY_ID /\ Replies[2].dest = RF_GATEWAY_ID

\* C8: a reception whose payload matches none of the six command words is
\* answered by no radio frame at all: no error frame, no ACK, no telemetry.
C8_UnknownPayloadNoReply ==
    (rx.valid /\ rx.data \notin Words) => Replies = <<>>

\* C9: telemetry is emitted once at boot, once after every command pulse, and
\* by the periodic check exactly when the period has really elapsed since the
\* period was last started; emissions caused by commands never touch the
\* period timer; and under a fair loop periodic telemetry recurs forever.
C9_BootOnce ==
    gpc # "setup" =>
        /\ Len(bootSends) = 1
        /\ bootSends[1].kind = "telemetry" /\ bootSends[1].dest = RF_GATEWAY_ID

C9_AfterEveryPulse ==
    (gpc \in {"period", "delay"} /\ PinEvents # <<>>) =>
        Len(SelectSeq(Replies, LAMBDA e : e.kind = "telemetry")) = 1

C9_PeriodicWhenDue ==
    gpc = "period" =>
        /\ (sinceLast >= TELEMETRY_INTERVAL_MS) =>
              /\ gpc' = "delay" => Len(PeriodicSends') = 1
              /\ gpc' = "delay" => lastTelemetryMs' = millis /\ sinceLast' = 0
        /\ (sinceLast < TELEMETRY_INTERVAL_MS) => PeriodicSends' = <<>>

C9_TimerUntouchedByCommands ==
    (gpc \in {"loop", "pulse", "ack", "telemetry", "delay"}) =>
        /\ lastTelemetryMs' = lastTelemetryMs
        /\ sinceLast' >= sinceLast

C9_PeriodicRecurs == []<>(gpc = "delay" /\ PeriodicSends # <<>>)

C9_TelemetrySchedule ==
    /\ [](C9_BootOnce /\ C9_AfterEveryPulse)
    /\ [][C9_PeriodicWhenDue /\ C9_TimerUntouchedByCommands]_vars
    /\ C9_PeriodicRecurs

C9_Witness ==
    /\ gpc = "delay"
    /\ rx.valid /\ rx.data \in Words
    /\ Len(Replies) = 2
    /\ Len(PeriodicSends) = 1
    /\ lastTelemetryMs = millis

(***************************************************************************)
(* Properties of the gateway node                                          *)
(***************************************************************************)
NoCR(s) == SelectSeq(s, LAMBDA b : b # CR)

Slice(s, m, n) == IF m >= 1 /\ n <= Len(s) THEN SubSeq(s, m, n) ELSE <<>>

\* the serial grammar: a line is malformed when it has no TO: prefix, no colon
\* after the destination token, or nothing after that colon
Malformed(l) ==
    \/ ~HasPrefix(l, StrTO)
    \/ StrChr(SubSeq(l, 4, Len(l)), COLON) = 0
    \/ StrChr(SubSeq(l, 4, Len(l)), COLON) = Len(l) - 3

\* the line fits the line buffer
Fits(l) == Len(l) <= SERIAL_BUF_LEN - 1

\* exactly one newline-terminated record
IsOneLine(out) == out # <<>> /\ CountOf(out, LF) = 1 /\ out[Len(out)] = LF

HandledLines == {handled[i] : i \in 1..Len(handled)}

OneErrorNoSend(h) ==
    /\ IsOneLine(h.out) /\ HasPrefix(h.out, ErrHeadBytes)
    /\ h.sends = <<>>

OneSendOneOutcome(h) ==
    /\ Len(h.sends) = 1
    /\ IsOneLine(h.out)
    /\ HasPrefix(h.out, SentToHead) <=> h.ok
    /\ HasPrefix(h.out, SentErrorHead) <=> ~h.ok

C5_OversizedLineDiscarded ==
    \A h \in HandledLines :
        ~Fits(NoCR(h.line)) => (~h.called /\ h.out = <<>> /\ h.sends = <<>>)

\* reading a reception event back from the bytes written
IntTokenEnd(s, i) ==
    LET j0 == IF i <= Len(s) /\ s[i] = 45 THEN i + 1 ELSE i
    IN CHOOSE j \in j0..(Len(s) + 1) :
          /\ j = Len(s) + 1 \/ ~IsDigit(s[j])
          /\ \A k \in j0..(j - 1) : IsDigit(s[k])

\* the number of backslashes that end right before position p, counted back
\* no further than position i
BackslashRun(s, i, p) ==
    LET ks == {k \in 0..(p - i) : \A j \in (p - k)..(p - 1) : s[j] = BACKSLASH}
    IN CHOOSE k \in ks : \A m \in ks : m <= k

\* position p is taken literally because an escaping backslash precedes it
IsEscaped(s, i, p) == BackslashRun(s, i, p) % 2 = 1

\* the backslash at position p escapes the byte after it
IsEscaper(s, i, p) == s[p] = BACKSLASH /\ ~IsEscaped(s, i, p) /\ p < Len(s)

\* reading a JSON string whose text starts at position i: the text with the
\* escaping backslashes taken out, and the position of the closing quote (0
\* when there is none)
UnescapeFrom(s, i) ==
    LET quotes == {p \in i..Len(s) : s[p] = QUOTE /\ ~IsEscaped(s, i, p)}
        close == IF quotes = {} THEN 0
                 ELSE CHOOSE p \in quotes : \A q \in quotes : p <= q
        last == IF close = 0 THEN Len(s) ELSE close - 1
        marked == [p \in 1..last |-> IF p >= i /\ IsEscaper(s, i, p) THEN -1 ELSE s[p]]
    IN [text |-> SelectSeq(SubSeq(marked, i, last), LAMBDA b : b # -1),
        close |-> close]

Unreadable == [ok |-> FALSE, src |-> 0, rssi |-> 0, payload |-> <<>>]

ReadRxEvent(out) ==
    IF ~HasPrefix(out, RxHead) THEN Unreadable
    ELSE
        LET a == Len(RxHead) + 1
            b == IntTokenEnd(out, a)
            c == b + Len(RssiKey)
            d == IntTokenEnd(out, c)
            e == d + Len(PayloadKey)
            u == UnescapeFrom(out, e)
        IN  IF \/ b = a
               \/ Slice(out, b, c - 1) # RssiKey
               \/ d = c
               \/ Slice(out, d, e - 1) # PayloadKey
               \/ u.close = 0
               \/ Slice(out, u.close, Len(out)) # <<QUOTE, 125, CR, LF>>
            THEN Unreadable
            ELSE [ok |-> TRUE,
                  src |-> Atoi(SubSeq(out, a, b - 1)),
                  rssi |-> Atoi(SubSeq(out, c, d - 1)),
                  payload |-> u.text]

CarriesFrame(out, f) ==
    /\ ReadRxEvent(out).ok
    /\ ReadRxEvent(out).src = f.sender
    /\ ReadRxEvent(out).rssi = f.rssi
    /\ ReadRxEvent(out).payload = f.data

C10_ReadyOnceAndFirst ==
    /\ bpc = "setup" => readyCount = 0 /\ earlyEvents = 0
    /\ bpc # "setup" => readyCount = 1 /\ earlyEvents = 0

C10_Witness ==
    /\ bpc = "rx"
    /\ LinesOf(serialOut) = <<MsgInitFailed, ReadyMarker>>
    /\ readyCount = 1

(***************************************************************************)
(* Telemetry snapshots of the gate node                                    *)
(***************************************************************************)
TelemetrySends ==
    {bootSends[i] : i \in 1..Len(bootSends)}
    \cup {glog[i] : i \in {j \in 1..Len(glog) :
                               IsSend(glog[j]) /\ glog[j].kind = "telemetry"}}

\* C11: in every telemetry snapshot the gate node builds, gate_state is
\* determined by the two limit inputs sampled for that snapshot alone: open
\* iff limit_open and not limit_closed, closed iff limit_closed and not
\* limit_open, moving iff neither, unknown iff both; whatever the call site
\* (boot, after a command, periodic) and whatever came before.
C11_GateStateFromLimits ==
    \A t \in TelemetrySends :
        LET lo == t.snap.limit_open
            lc == t.snap.limit_closed
            g == t.snap.gate_state
        IN  /\ g \in {"open", "closed", "moving", "unknown"}
            /\ (g = "open") <=> (lo /\ ~lc)
            /\ (g = "closed") <=> (lc /\ ~lo)
            /\ (g = "moving") <=> (~lo /\ ~lc)
            /\ (g = "unknown") <=> (lo /\ lc)

C11_Witness ==
    /\ \E i \in 1..Len(glog) : IsPin(glog[i])
    /\ \E t \in TelemetrySends :
          /\ t.cause = "command"
          /\ t.snap.limit_open /\ t.snap.limit_closed
          /\ t.snap.gate_state = "unknown"

(***************************************************************************)
(* Battery percentage                                                      *)
(***************************************************************************)
Abs(x) == IF x < 0 THEN -x ELSE x

\* C12: battery_pct(v) is 0 at or below the low threshold, 100 at or above
\* the high threshold, otherwise the integer nearest to the linear
\* interpolation between the thresholds (12.55 V gives 50); it is always
\* within 0..100 and never decreases when v increases.
C12_BatteryPct ==
    /\ \A i \in 1..Len(readings) :
          LET v == readings[i].v
              pct == readings[i].pct
              span == BATTERY_VOLTS_MAX - BATTERY_VOLTS_MIN
          IN  /\ pct \in 0..100
              /\ v <= BATTERY_VOLTS_MIN => pct = 0
              /\ v >= BATTERY_VOLTS_MAX => pct = 100
              /\ (BATTERY_VOLTS_MIN < v /\ v < BATTERY_VOLTS_MAX) =>
                     2 * Abs(pct * span - 100 * (v - BATTERY_VOLTS_MIN)) <= span
              /\ v = 12550 => pct = 50
    /\ \A i, j \in 1..Len(readings) :
          readings[i].v <= readings[j].v => readings[i].pct <= readings[j].pct

C12_Witness ==
    /\ Len(readings) = 2
    /\ readings[1].v = 12525 /\ readings[1].pct = 49
    /\ readings[2].v = 12550 /\ readings[2].pct = 50

(***************************************************************************)
(* The serial grammar of the gateway's output                              *)
(***************************************************************************)
\* the index of the quote closing a JSON string whose text starts at i;
\* 0 when the text is not a JSON string (a raw control character, a bad
\* escape, no closing quote)
RECURSIVE JsonStringClose(_, _)
JsonStringClose(s, i) ==
    IF i > Len(s) THEN 0
    ELSE IF s[i] = QUOTE THEN i
    ELSE IF s[i] < 32 THEN 0
    ELSE IF s[i] = BACKSLASH
    THEN IF i < Len(s) /\ s[i + 1] \in {34, 47, 92, 98, 102, 110, 114, 116}
         THEN JsonStringClose(s, i + 2)
         ELSE 0
    ELSE JsonStringClose(s, i + 1)

\* ","line":"
LineKeyBytes == <<34, 44, 34, 108, 105, 110, 101, 34, 58, 34>>

IsReadyLine(l) == l = ReadyMarker

\* {"src":<int>,"rssi":<int>,"payload":"<escaped text>"}
IsRxLine(l) ==
    /\ HasPrefix(l, RxHead)
    /\ LET a == Len(RxHead) + 1
           b == IntTokenEnd(l, a)
           c == b + Len(RssiKey)
           d == IntTokenEnd(l, c)
           e == d + Len(PayloadKey)
           q == JsonStringClose(l, e)
       IN  /\ b > a /\ Slice(l, b, c - 1) = RssiKey
           /\ d > c /\ Slice(l, d, e - 1) = PayloadKey
           /\ q # 0 /\ SubSeq(l, q, Len(l)) = QuoteBrace

\* {"sent_to":<int>,"payload":"<text>"}
IsSentToLine(l) ==
    /\ HasPrefix(l, SentToHead)
    /\ LET a == Len(SentToHead) + 1
           b == IntTokenEnd(l, a)
           c == b + Len(PayloadKey)
           q == JsonStringClose(l, c)
       IN  /\ b > a /\ Slice(l, b, c - 1) = PayloadKey
           /\ q # 0 /\ SubSeq(l, q, Len(l)) = QuoteBrace

\* {"sent_error_to":<int>}
IsSentErrorLine(l) ==
    /\ HasPrefix(l, SentErrorHead)
    /\ LET a == Len(SentErrorHead) + 1
           b == IntTokenEnd(l, a)
       IN  b > a /\ SubSeq(l, b, Len(l)) = CloseBrace

\* {"err":"<reason>","line":"<original>"}
IsRejectionLine(l) ==
    /\ HasPrefix(l, ErrHeadBytes \o <<QUOTE>>)
    /\ LET a == Len(ErrHeadBytes) + 2
           r == JsonStringClose(l, a)
           b == r + Len(LineKeyBytes)
           q == JsonStringClose(l, b)
       IN  /\ r # 0 /\ Slice(l, r, b - 1) = LineKeyBytes
           /\ q # 0 /\ SubSeq(l, q, Len(l)) = QuoteBrace

IsGrammarLine(l) ==
    \/ IsReadyLine(l)
    \/ IsRxLine(l)
    \/ IsSentToLine(l)
    \/ IsSentErrorLine(l)
    \/ IsRejectionLine(l)

\* C13: every line the gateway writes to serial, from boot onward, is a
\* well-formed JSON object of one of the shapes of the serial grammar: the
\* readiness marker, a reception event, a send outcome, or a rejection event
\* carrying both err and the original line.
C13_EveryLineInGrammar ==
    \A i \in 1..Len(LinesOf(serialOut)) : IsGrammarLine(LinesOf(serialOut)[i])

(***************************************************************************)
(* Telemetry through the gateway                                           *)
(***************************************************************************)
\* C14: a telemetry frame sent by the gate node is forwarded unchanged by the
\* gateway: the serial line written for it is the telemetry JSON object
\* itself (top-level fields src, gate_state, ..., uptime_s).
C14_TelemetryForwardedUnchanged ==
    (bpc = "serial" /\ frame.valid /\ frame.data \in TelemetryTexts) =>
        LinesOf(serialOut) = <<frame.data>>

(***************************************************************************)
(* Truncation of outbound payloads                                         *)
(***************************************************************************)
\* the most bytes forwardSerialToRadio hands to sendWithRetry
TransportMax == SEND_BUF_LEN - 1

\* the payload text of a valid line
PayloadOf(l) ==
    LET p == SubSeq(l, 4, Len(l)) IN SubSeq(p, StrChr(p, COLON) + 1, Len(p))

SendsLeadingBytes(h) ==
    /\ Len(h.sends) = 1
    /\ h.sends[1].data = SubSeq(PayloadOf(NoCR(h.line)), 1, TransportMax)

NeverOverMax ==
    /\ \A h \in HandledLines :
          \A i \in 1..Len(h.sends) : Len(h.sends[i].data) <= TransportMax
    /\ \A i \in 1..Len(radioSent) : Len(radioSent[i].data) <= TransportMax

C16_UptimeNeverDecreases ==
    Len(uptimeLog) = 2 => uptimeLog[1] <= uptimeLog[2]

(***************************************************************************)
(* A command end to end                                                    *)
(***************************************************************************)
\* what the gateway wrote after the ACK event is a reception event from the
\* gate node whose payload is the telemetry snapshot sent after the pulse
CarriesSnapshot ==
    /\ ReadRxEvent(afterAck).ok
    /\ ReadRxEvent(afterAck).src = RF_NODE_ID
    /\ ReadRxEvent(afterAck).payload = sampledText

\* the same with the payload cut to the gateway's payload buffer
CarriesSnapshotHead ==
    /\ ReadRxEvent(afterAck).ok
    /\ ReadRxEvent(afterAck).src = RF_NODE_ID
    /\ ReadRxEvent(afterAck).payload = SubSeq(sampledText, 1, RH_RF69_MAX_MESSAGE_LEN)

\* C17: with the two nodes joined by a radio link that delivers frames, the
\* serial line TO:20:OPEN leads the gateway to write a reception event from
\* src 20 with payload ACK and, after it, a reception event carrying the
\* telemetry snapshot sampled after the pulse: once the gateway has written
\* the ACK event and the event after it, that event carries the snapshot.
C17_EventAfterAckCarriesSnapshot ==
    phase = "done" => CarriesSnapshot

\* what does hold: the event after the ACK event carries the first
\* RH_RF69_MAX_MESSAGE_LEN bytes of the snapshot
LinkEventAfterAckCarriesHead ==
    phase = "done" => CarriesSnapshotHead
(***************************************************************************)
(* Properties of the host translator                                       *)
(***************************************************************************)
\* the bytes of w between the prefix TO:<node-id>: and the final byte
CommandTextOf(w, node) ==
    SubSeq(w, Len(StrTO \o PrintInt(node)) + 2, Len(w) - 1)

WriteMatches(w, m) ==
    /\ HasPrefix(w, StrTO \o PrintInt(m.node) \o <<COLON>>)
    /\ w[Len(w)] = LF
    /\ IF m.payload # <<>> /\ m.payload[Len(m.payload)] = LF
       THEN CommandTextOf(w, m.node) \o <<LF>> = m.payload
       ELSE CommandTextOf(w, m.node) = m.payload

C19_RetentionRules ==
    /\ \A m \in published : m.retain = (m.topic.kind = "discovery")
    /\ \A t \in subscriber.received :
          t.kind = "telemetry" => t.node \notin subscriber.silentThen

\* node 20 reported, then went silent, then a subscriber connected and
\* received the node's descriptors and none of its telemetry
C19_Witness ==
    /\ subscriber.connected
    /\ RF_NODE_ID \in subscriber.silentThen
    /\ [topic |-> [kind |-> "telemetry", node |-> RF_NODE_ID, leaf |-> "state"],
        retain |-> FALSE] \in published
    /\ [kind |-> "discovery", node |-> RF_NODE_ID, leaf |-> "cover"] \in subscriber.received
    /\ TelemetryTopics(RF_NODE_ID) \cap subscriber.received = {}

(***************************************************************************)
(* Properties of the serial autodetect                                     *)
(***************************************************************************)
\* the marker's bytes occur in what candidate i sends within the timeout
ProducesMarker(i) ==
    LET out == outputs[candidates[i]] IN
    \E k \in 1..(Len(out) - Len(ReadyMarker) + 1) :
       SubSeq(out, k, k + Len(ReadyMarker) - 1) = ReadyMarker

\* C20: the candidates are probed in enumeration order and the path of the
\* first one that produces the readiness marker within its timeout is
\* persisted, no other path being written; when no candidate produces the
\* marker the run fails and the persisted configuration is as it was.
C20_FirstReadyCandidatePersisted ==
    /\ candidates = Enumerate({candidates[i] : i \in DOMAIN candidates})
    /\ dpc = "ok" =>
          \E i \in DOMAIN candidates :
             /\ ProducesMarker(i)
             /\ \A j \in 1..(i - 1) : ~ProducesMarker(j)
             /\ persisted = candidates[i]
             /\ envWrites = <<candidates[i]>>
    /\ dpc = "failed" =>
          /\ \A i \in DOMAIN candidates : ~ProducesMarker(i)
          /\ persisted = persistedBefore
          /\ envWrites = <<>>

\* three candidates of which only the second emits the marker
C20_Witness ==
    /\ dpc = "ok"
    /\ Len(candidates) = 3
    /\ ~ProducesMarker(1) /\ ProducesMarker(2) /\ ~ProducesMarker(3)
    /\ persisted = candidates[2]
    /\ persisted # persistedBefore
    /\ envWrites = <<candidates[2]>>

\* no candidate emits the marker and a configuration was persisted earlier
C20_WitnessFailed ==
    /\ dpc = "failed"
    /\ Len(candidates) = 3
    /\ persistedBefore = DevicePaths[2]
    /\ persisted = DevicePaths[2]

(***************************************************************************)
(* The blocking pulse                                                      *)
(***************************************************************************)
SendEvents == SelectSeq(glog, IsSend)

\* C21: while an actuator output is asserted the gate node polls no
\* reception and sends nothing (no ACK, no telemetry of either kind): the
\* only step it takes is the one that deasserts the output, so a reception
\* or a due period is handled only with every output deasserted.
C21_PulseBlocksRadio ==
    [][ ~AllLow =>
          /\ rx' = rx
          /\ SendEvents' = SendEvents
          /\ bootSends' = bootSends
          /\ lastTelemetryMs' = lastTelemetryMs
          /\ AllLow' ]_vars

\* a pulse has ended: the output went HIGH and LOW with nothing sent in
\* between, and the period fell due meanwhile
C21_Witness ==
    /\ gpc = "ack"
    /\ Len(PinEvents) = 2
    /\ SendEvents = <<>>
    /\ AllLow
    /\ PeriodDue(millis, lastTelemetryMs)

(***************************************************************************)
(* Failed sends of the gate node                                           *)
(***************************************************************************)
CausesOf(log) == [i \in 1..Len(log) |-> log[i].cause]

\* the results logged for the sends of loop()
LoopResults == SelectSeq(sendLog, LAMBDA r : r.cause # "boot")

SendOrder == <<"boot", "ack", "command", "periodic">>

\* C22: when a send of the gate node fails, nothing is sent again and
\* nothing is kept for later: one send per call site and loop() iteration,
\* in the usual order; the step that made the failed send continues as after
\* a success (a failed periodic snapshot still restarts the period); and
\* telemetry is sent only at boot, after a reception, or when the period has
\* really elapsed.
C22_FailedSendDropped ==
    /\ [](/\ CausesOf(LoopResults) = [i \in 1..Len(SendEvents) |->
                IF SendEvents[i].kind = "ack" THEN "ack" ELSE SendEvents[i].cause]
          /\ \A i, j \in 1..Len(sendLog) :
                i < j => \E a, b \in 1..4 :
                   a < b /\ SendOrder[a] = sendLog[i].cause /\ SendOrder[b] = sendLog[j].cause)
    /\ [][ Len(sendLog') > Len(sendLog) =>
             LET r == sendLog'[Len(sendLog')] IN
             /\ r.cause = "boot" =>
                   gpc' = "loop" /\ lastTelemetryMs' = millis' /\ sinceLast' = 0
             /\ r.cause = "ack" =>
                   gpc' = "telemetry" /\ lastTelemetryMs' = lastTelemetryMs
             /\ r.cause = "command" =>
                   /\ gpc = "telemetry" /\ rx.valid
                   /\ gpc' = "period" /\ lastTelemetryMs' = lastTelemetryMs
             /\ r.cause = "periodic" =>
                   /\ sinceLast >= TELEMETRY_INTERVAL_MS
                   /\ gpc' = "delay" /\ lastTelemetryMs' = millis /\ sinceLast' = 0 ]_vars

\* a periodic snapshot failed and the period began again
C22_Witness ==
    /\ gpc = "delay"
    /\ sendLog # <<>>
    /\ sendLog[Len(sendLog)] = SendResult("periodic", FALSE)
    /\ \E i \in 1..Len(sendLog) : sendLog[i] = SendResult("ack", FALSE)
    /\ lastTelemetryMs = millis
    /\ sinceLast = 0

(***************************************************************************)
(* The payload of an outbound line                                         *)
(***************************************************************************)
SendsWholePayload(h) ==
    /\ Len(h.sends) = 1
    /\ h.sends[1].data = PayloadOf(NoCR(h.line))

\* C23, as claimed: for every valid outbound line the payload handed to the
\* radio is everything after the first colon that follows TO:, later colons
\* included, carriage returns removed, without the newline, and otherwise
\* untouched.
C23_PayloadAfterFirstColon ==
    \A h \in HandledLines : ~Malformed(NoCR(h.line)) => SendsWholePayload(h)

\* C23, amended: the same for valid lines of at most SERIAL_BUF_LEN - 1 bytes
\* (carriage returns not counted) whose payload is not longer than the
\* transport maximum.
C23_FittingPayloadAfterFirstColon ==
    \A h \in HandledLines :
        (/\ ~Malformed(NoCR(h.line))
         /\ Fits(NoCR(h.line))
         /\ Len(PayloadOf(NoCR(h.line))) <= TransportMax)
            => SendsWholePayload(h) /\ radioSent = h.sends

\* TO:20:OPEN: followed by CR LF: the payload OPEN: keeps its colon and
\* loses the carriage return
C23_Witness ==
    \E h \in HandledLines :
        /\ h.line = StrTO \o <<50, 48, 58>> \o StrOPEN \o <<COLON, CR>>
        /\ Len(radioSent) = 1
        /\ radioSent[1].data = StrOPEN \o <<COLON>>

(***************************************************************************)
(* Escaping in reception events                                            *)
(***************************************************************************)
\* the payload string of a reception event: the bytes between "payload":"
\* and the closing "}
RxPayloadString(out) ==
    LET a == Len(RxHead) + 1
        b == IntTokenEnd(out, a)
        d == IntTokenEnd(out, b + Len(RssiKey))
    IN Slice(out, d + Len(PayloadKey), Len(out) - 4)

NoControlBytes(data) == \A i \in 1..Len(data) : data[i] >= 32

\* str is data with one backslash added before every quote and backslash:
\* it is longer by the number of those bytes, no quote or backslash in it
\* stands unescaped, and taking the escaping backslashes out gives data
EscapedFrom(str, data) ==
    /\ Len(str) = Len(data) + CountOf(data, QUOTE) + CountOf(data, BACKSLASH)
    /\ LET u == UnescapeFrom(str \o <<QUOTE>>, 1) IN
          u.close = Len(str) + 1 /\ u.text = data

\* C24: the payload string of a reception event is the received payload
\* with exactly one backslash added before every quote and every backslash
\* and every other byte as it was, in order; un-escaping the string of a
\* payload without control bytes gives the received payload.
C24_PayloadEscaped ==
    (bpc = "serial" /\ frame.valid) =>
        /\ HasPrefix(serialOut, RxHead)
        /\ EscapedFrom(RxPayloadString(serialOut), frame.data)

\* what does hold: the string is the escaped first RH_RF69_MAX_MESSAGE_LEN
\* bytes of the received payload
RxPayloadHeadEscaped ==
    (bpc = "serial" /\ frame.valid) =>
        /\ HasPrefix(serialOut, RxHead)
        /\ EscapedFrom(RxPayloadString(serialOut),
                       SubSeq(frame.data, 1, Min(Len(frame.data), RH_RF69_MAX_MESSAGE_LEN)))

(***************************************************************************)
(* Length of the gate node's payloads                                      *)
(***************************************************************************)
\* C25: every payload the gate node hands to the radio, the ACK and every
\* telemetry snapshot whatever the sampled values, is at most
\* RADIO_FRAME_MAX bytes long.
C25_PayloadWithinFrameBound == Len(payloadOut) <= RADIO_FRAME_MAX

\* what does hold: the ACK is 3 bytes long and every snapshot is longer than
\* RADIO_FRAME_MAX bytes and shorter than the 512 bytes of its buffer
PayloadLengths ==
    payloadOut # <<>> =>
        \/ payloadOut = StrACK
        \/ Len(payloadOut) > RADIO_FRAME_MAX /\ Len(payloadOut) < 512

(***************************************************************************)
(* The line buffer's write index                                           *)
(***************************************************************************)
\* serialBuf[0 .. SERIAL_BUF_LEN - 1] are the elements of the buffer
InBuffer(i) == i \in 0..(SERIAL_BUF_LEN - 1)

\* C26: after any serial input the write index serialPos is an index of the
\* line buffer, at every byte read: before loop() reads, after it has read,
\* and after every byte of whatever it reads next; so the byte stored at
\* serialPos and the terminator stored there at a newline are in bounds.
C26_WriteIndexInBounds ==
    /\ InBuffer(serialPos)
    /\ Len(serialBuf) = serialPos
    /\ \A c \in Chunks : \A k \in 1..Len(c) :
          InBuffer(Drain(DrainState, SubSeq(c, 1, k), TRUE).pos)

\* the buffer is full: the next write is the terminator in the last element
C26_Witness ==
    /\ bpc = "rx"
    /\ serialPos = SERIAL_BUF_LEN - 1
    /\ serialBuf = StrTO \o <<50, 48, 58>> \o StrOPEN \o StrOPEN \o <<COLON>>
    /\ Drain(DrainState, <<LF>>, TRUE).pos = 0

(***************************************************************************)
(* The destination id of an outbound line                                  *)
(***************************************************************************)
\* the destination token of a valid line: the bytes between TO: and the
\* first colon after it
DestTokenOf(l) ==
    LET p == SubSeq(l, 4, Len(l)) IN SubSeq(p, 1, StrChr(p, COLON) - 1)

IsDecimal(t) ==
    LET ds == IF t # <<>> /\ t[1] = 45 THEN Tail(t) ELSE t
    IN ds # <<>> /\ \A i \in 1..Len(ds) : IsDigit(ds[i])

RECURSIVE DigitsValue(_)
DigitsValue(ds) ==
    IF ds = <<>> THEN 0
    ELSE 10 * DigitsValue(SubSeq(ds, 1, Len(ds) - 1)) + (ds[Len(ds)] - 48)

\* the integer a decimal token writes
DecimalValue(t) == IF t[1] = 45 THEN -DigitsValue(Tail(t)) ELSE DigitsValue(t)

\* the id printed in a sent_to / sent_error_to event
PrintedId(out) ==
    LET a == IF HasPrefix(out, SentToHead) THEN Len(SentToHead) + 1
             ELSE Len(SentErrorHead) + 1
    IN Atoi(SubSeq(out, a, IntTokenEnd(out, a) - 1))

\* C27: for every valid outbound line the destination id passed to the
\* radio is the decimal integer written in the line's destination token and
\* the id printed in the outcome event is that same id, values above 255
\* and negative values included.
C27_DestinationIsTokenValue ==
    (fwd # NoCall /\ ~Malformed(fwd.line) /\ IsDecimal(DestTokenOf(fwd.line))) =>
        /\ Len(fwd.sends) = 1
        /\ fwd.sends[1].dest = DecimalValue(DestTokenOf(fwd.line))
        /\ PrintedId(fwd.out) = fwd.sends[1].dest

\* what does hold: for a token that writes an integer from 0 to 255 the id
\* passed and the id printed are that integer; for any other token the id
\* passed is the low byte of the id printed
DestinationLowByte ==
    (fwd # NoCall /\ ~Malformed(fwd.line)) =>
        /\ Len(fwd.sends) = 1
        /\ fwd.sends[1].dest = PrintedId(fwd.out) % 256
        /\ (/\ IsDecimal(DestTokenOf(fwd.line))
            /\ DecimalValue(DestTokenOf(fwd.line)) \in 0..255)
               => /\ fwd.sends[1].dest = DecimalValue(DestTokenOf(fwd.line))
                  /\ PrintedId(fwd.out) = DecimalValue(DestTokenOf(fwd.line))

(***************************************************************************)
(* The payload reported in a sent_to event                                 *)
(***************************************************************************)
\* the text between "payload":" and the closing "} of a sent_to event
PrintedPayload(out) ==
    LET a == IntTokenEnd(out, Len(SentToHead) + 1) + Len(PayloadKey)
    IN SubSeq(out, a, Len(out) - Len(Println(QuoteBrace)))

\* C28: the payload printed in a sent_to event is exactly the byte sequence
\* handed to the radio for that line, whatever the length of the payload,
\* payloads longer than the transport maximum included.
C28_PrintedPayloadIsSent ==
    (fwd # NoCall /\ HasPrefix(fwd.out, SentToHead)) =>
        /\ Len(fwd.sends) = 1
        /\ PrintedPayload(fwd.out) = fwd.sends[1].data

\* what does hold: the event prints the whole payload text of the line, and
\* the bytes handed to the radio are its first TransportMax bytes; the two
\* are equal when the payload is no longer than the transport maximum
PrintedPayloadIsWholeText ==
    (fwd # NoCall /\ HasPrefix(fwd.out, SentToHead)) =>
        /\ Len(fwd.sends) = 1
        /\ PrintedPayload(fwd.out) = PayloadOf(fwd.line)
        /\ fwd.sends[1].data =
              SubSeq(PayloadOf(fwd.line), 1, Min(Len(PayloadOf(fwd.line)), TransportMax))
        /\ Len(PayloadOf(fwd.line)) <= TransportMax
              => PrintedPayload(fwd.out) = fwd.sends[1].data

\* a payload longer than the transport maximum reported whole after a send
\* of its leading bytes
LongPayloadReportedWhole ==
    /\ fwd.ok
    /\ PayloadOf(fwd.line) = Filler(SEND_BUF_LEN + 1, 88)
    /\ PrintedPayload(fwd.out) = Filler(SEND_BUF_LEN + 1, 88)
    /\ fwd.sends[1].data = Filler(TransportMax, 88)

(***************************************************************************)
(* The period check across wraparound of millis()                          *)
(***************************************************************************)
\* the unsigned difference millis() - lastTelemetryMs is the time really
\* elapsed since the period was last started
ElapsedIsReal == gpc # "setup" => Elapsed(millis, lastTelemetryMs) = sinceLast

\* the period check of one loop iteration emits exactly when the interval
\* has really elapsed
EmitsExactlyWhenElapsed ==
    gpc = "period" =>
        /\ (sinceLast >= TELEMETRY_INTERVAL_MS) <=> (Len(PeriodicSends') = 1)
        /\ (sinceLast < TELEMETRY_INTERVAL_MS) <=> (PeriodicSends' = <<>>)
        /\ Len(PeriodicSends') = 1 => lastTelemetryMs' = millis /\ sinceLast' = 0

\* C29: the periodic telemetry check stays correct across wraparound of the
\* millisecond counter: (now - last) modulo the counter's range is the time
\* really elapsed, and a periodic emission happens exactly when at least the
\* interval has really elapsed since the last one, neither early nor
\* suppressed when the counter wraps between two emissions.
C29_PeriodCheckAcrossWrap ==
    /\ []ElapsedIsReal
    /\ [][EmitsExactlyWhenElapsed]_vars

\* a periodic emission at a counter value below the interval: the counter
\* wrapped since the emission before it
C29_Witness ==
    /\ gpc = "delay"
    /\ Len(PeriodicSends) = 1
    /\ lastTelemetryMs = millis
    /\ millis < TELEMETRY_INTERVAL_MS
    /\ sinceLast = 0

(***************************************************************************)
(* The actuator outputs, over whole runs of the gate node                  *)
(***************************************************************************)
Asserted == {p \in ActuatorPins : pins[p] = "HIGH"}

\* C30: in every reachable state of the gate node at most one actuator
\* output is asserted; from the end of setup onward all six are deasserted
\* whenever no pulse is in progress, and during a pulse the one asserted is
\* the output being pulsed; after any sequence of received frames.
C30_AtMostOneOutputAsserted ==
    /\ Cardinality(Asserted) <= 1
    /\ gpc \notin {"setup", "pulse"} => Asserted = {}
    /\ gpc = "pulse" => Asserted = {pulsePinArg}

\* a pulse in progress in a loop iteration that follows an earlier emission
\* after boot: one output asserted, the other five deasserted
C30_Witness ==
    /\ gpc = "pulse"
    /\ Asserted = {PIN_ACT_UNLATCH}
    /\ Len(uptimeLog) = 2
    /\ millis < lastTelemetryMs

====
